---- MODULE Spec2Model ----
(***************************************************************************)
(* pg-advisory-lock: the reentrant, connection-scoped lock coordinator.   *)
(*                                                                         *)
(* NestingPool (pool.ts) hands a pg PoolClient to each lock operation and  *)
(* remembers it in an AsyncLocalStorage, so that nested operations of the  *)
(* same asynchronous context reuse it.  AdvisoryLockMutex (mutex.ts) runs  *)
(* the session-level advisory lock statements on that client.              *)
(*                                                                         *)
(* A "chain" is one asynchronous execution context.  Its stack holds the   *)
(* lock operations it is awaiting, innermost last.  A chain created inside *)
(* a withClient scope (a Promise.all branch, a continuation that is not    *)
(* awaited) inherits the AsyncLocalStorage store of its creator.           *)
(***************************************************************************)
EXTENDS Naturals, Sequences, FiniteSets

\* ---------------------------------------------------------------- bounds
NRoots == 2         \* chains started outside every scope
NSpawn == 2         \* chains that can be started inside a scope
NKeys == 2          \* distinct lock keys
NConns == 2         \* clients of the pg pool
MaxDepth == 2       \* nesting depth of lock operations in one chain
MaxOps == 3         \* lock operations started in one behaviour
MaxClosures == 2    \* unlock closures one chain keeps uninvoked
MaxFaults == 1      \* failures of the pool or of a statement in one behaviour
NMutex == 2         \* AdvisoryLockMutex objects constructed
MaxNameLen == 2     \* length of the generated resource names
MaxArgs == 2        \* arguments given to a wrapped function
MaxCoDepth == 3     \* nesting depth of one chain across two coordinators

Chains == 1..(NRoots + NSpawn)
Roots == 1..NRoots
Keys == 1..NKeys
Conns == 1..NConns
NoConn == 0
Errors == {"FnError"}

VARIABLES
    pool,       \* pg.Pool: per client "idle" (in the pool) or "out" (checked out)
    held,       \* database: per session and key, how often the session holds the lock
    stack,      \* per chain, the frames of the operations it awaits
    inherited,  \* per chain, the AsyncLocalStorage store it was created with
    started,    \* per chain, whether it has been created
    creator,    \* per chain, the chain that created it (0 for a root)
    closures,   \* per chain, the unlock closures tryLock returned to it
    ops,        \* lock operations started so far
    faults,     \* failures of the pool or of a statement injected so far
    mutex,      \* per AdvisoryLockMutex object, its fields name and lockKey
    run,        \* per way of calling a function under the lock, the call's progress
    coord       \* two coordinators used by one chain: their pools, sessions and frames

vars == <<pool, held, stack, inherited, started, creator, closures, ops,
          faults, mutex, run, coord>>

\* The variables the lock operations do not touch.
otherVars == <<faults, mutex, run, coord>>

\* ------------------------------------------------------- the database session
\* pg_advisory_lock / pg_try_advisory_lock are granted when no other session
\* holds the key; a session that already holds it is granted again (requests stack).
PgGrantable_noReentry(h, c, k) == \A d \in Conns : h[d][k] = 0

PgGrantable(h, c, k) == \A d \in Conns : d # c => h[d][k] = 0

\* (variant: every name is mapped to one and the same key)
PgLock_oneKey(h, c, k) == [h EXCEPT ![c][1] = @ + 1]

PgLock(h, c, k) == [h EXCEPT ![c][k] = @ + 1]

\* (variant: an unlock that drops every stacked hold of the session at once)
PgUnlock_all(h, c, k) == [h EXCEPT ![c][k] = 0]

\* pg_advisory_unlock releases one of the stacked holds (and does nothing, with a
\* warning, when the session holds none).
PgUnlock(h, c, k) == [h EXCEPT ![c][k] = IF @ > 0 THEN @ - 1 ELSE 0]

\* (variant: getClient() stores the client it took with enterWith(), so the
\* client of a granted top-level tryLock stays stored in its chain)
getStore_enterWith(ch) ==
    IF inherited[ch] # NoConn THEN inherited[ch]
    ELSE IF stack[ch] # <<>> /\ stack[ch][1].op \in {"withLock", "tryWithLock"}
              /\ ~stack[ch][1].nested
         THEN stack[ch][1].conn
         ELSE IF \E i \in 1..Len(closures[ch]) : ~closures[ch][i].nested
              THEN closures[ch][CHOOSE i \in 1..Len(closures[ch]) : ~closures[ch][i].nested].conn
              ELSE NoConn

\* (variant: the client of an uninvoked unlock closure is what the chain finds
\* stored, as if tryLock had bound it)
getStore_closureBinds(ch) ==
    IF closures[ch] # <<>> THEN closures[ch][1].conn
    ELSE IF inherited[ch] # NoConn THEN inherited[ch]
    ELSE IF stack[ch] # <<>> /\ stack[ch][1].op \in {"withLock", "tryWithLock"}
              /\ ~stack[ch][1].nested
         THEN stack[ch][1].conn
         ELSE NoConn

\* ------------------------------------------------------------- NestingPool
\* connectionStorage.getStore() as seen by the user code of chain ch: the store
\* the chain was created with, or else the client that the chain's outermost
\* withClient passed to connectionStorage.run().
getStore(ch) ==
    IF inherited[ch] # NoConn THEN inherited[ch]
    ELSE IF stack[ch] # <<>> /\ stack[ch][1].op \in {"withLock", "tryWithLock"}
              /\ ~stack[ch][1].nested
         THEN stack[ch][1].conn
         ELSE NoConn

\* (variant: getClient that never looks at the store)
getClient_noReuse(store) == [client |-> NoConn, nested |-> FALSE]

\* getClient(), the part before any await: a stored client is reused (nested).
getClient(store) ==
    IF store # NoConn THEN [client |-> store, nested |-> TRUE]
    ELSE [client |-> NoConn, nested |-> FALSE]

\* (variant: release() that leaves the client checked out)
clientRelease_noop(p, c) == p

\* client.release(): the client goes back to the pool.
clientRelease(p, c) == [p EXCEPT ![c] = "idle"]

\* (variant: the release function of a reused client releases it as well)
releaseFn_always(p, f) == clientRelease(p, f.conn)

\* The release function getClient() returned to the call of frame f: a no-op
\* when the client was reused, client.release() when it was taken from the pool.
releaseFn(p, f) == IF f.nested THEN p ELSE clientRelease(p, f.conn)

\* ------------------------------------------------------------------ frames
Top(ch) == stack[ch][Len(stack[ch])]

SetTop(ch, f) == [stack EXCEPT ![ch] = [@ EXCEPT ![Len(@)] = f]]

Push(ch, f) == [stack EXCEPT ![ch] = Append(@, f)]

Pop(ch) == [stack EXCEPT ![ch] = SubSeq(@, 1, Len(@) - 1)]

\* The chain is running user code: top-level code, or the function passed to
\* withLock / tryWithLock.
InUserCode(ch) ==
    /\ started[ch]
    /\ IF stack[ch] = <<>> THEN TRUE ELSE Top(ch).pc = "fn"

\* A new frame of operation op on key k, as the synchronous start of
\* withClient() / getClient() leaves it.
NewFrame(store, op, k) ==
    LET g == getClient(store) IN
    [op |-> op, key |-> k, conn |-> g.client, nested |-> g.nested,
     pc |-> IF g.nested THEN (IF op = "withLock" THEN "lock" ELSE "try") ELSE "connect",
     fnres |-> "none", res |-> "none", rel |-> 0]

\* (variant: withClient without finally, release() is skipped when fn throws)
withClientFinally_onlyOnSuccess(f) ==
    IF f.nested \/ f.fnres \in Errors THEN "ret" ELSE "release"

\* (variant: withClient that never releases the client it took)
withClientFinally_noRelease(f) == "ret"

\* (variant: withClient whose nested branch releases the client too)
withClientFinally_nestedReleases(f) == "release"

\* withClient(), after fn(client) has settled: the nested branch returns, the
\* other one runs release() in its finally.
withClientFinally(f) == IF f.nested THEN "ret" ELSE "release"

\* (variant: withLock that swallows the error of fn)
withLockResult_swallow(fnres) == "value"

\* What withLock settles with: the value of fn, or the error fn threw.
withLockResult(fnres) == fnres

\* (variant: the error of fn is swallowed and success is reported)
tryWithLockResult_swallow(fnres) == "acquired"

\* What tryWithLock settles with after fn ran.
tryWithLockResult(fnres) == IF fnres \in Errors THEN fnres ELSE "acquired"

\* ------------------------------------------------- choice of representatives
\* Chains, clients and keys that nothing yet distinguishes are interchangeable;
\* of a set of interchangeable ones the lowest-numbered is the one that acts.
Mentions(ch, c) ==
    \/ inherited[ch] = c
    \/ \E i \in 1..Len(stack[ch]) : stack[ch][i].conn = c
    \/ \E i \in 1..Len(closures[ch]) : closures[ch][i].conn = c

FreshConn(c) ==
    /\ pool[c] = "idle"
    /\ \A k \in Keys : held[c][k] = 0
    /\ \A ch \in Chains : ~Mentions(ch, c)

BlankRoot(ch) ==
    /\ ch \in Roots
    /\ stack[ch] = <<>>
    /\ closures[ch] = <<>>
    /\ \A n \in Chains : creator[n] # ch

KeyInUse(k) ==
    \/ \E c \in Conns : held[c][k] > 0
    \/ \E ch \in Chains :
          \/ \E i \in 1..Len(stack[ch]) : stack[ch][i].key = k
          \/ \E i \in 1..Len(closures[ch]) : closures[ch][i].key = k

\* --------------------------------------------------------------- actions
\* mutex.withLock(fn) / mutex.tryWithLock(fn) / mutex.tryLock() is called.
Call(ch, op, k) ==
    /\ InUserCode(ch)
    /\ Len(stack[ch]) < MaxDepth
    /\ ops < MaxOps
    /\ op = "tryLock" => Len(closures[ch]) < MaxClosures
    /\ BlankRoot(ch) => \A r \in Roots : r < ch => ~BlankRoot(r)
    /\ ~KeyInUse(k) => \A j \in Keys : j < k => KeyInUse(j)
    /\ stack' = Push(ch, NewFrame(getStore(ch), op, k))
    /\ ops' = ops + 1
    /\ UNCHANGED <<pool, held, inherited, started, creator, closures>>
    /\ UNCHANGED otherVars

callWithLock(ch, k) == Call(ch, "withLock", k)

callTryWithLock(ch, k) == Call(ch, "tryWithLock", k)

callTryLock(ch, k) == Call(ch, "tryLock", k)

\* await this.pool.connect() resolves with an idle client.
poolConnect(ch, c) ==
    /\ started[ch] /\ stack[ch] # <<>>
    /\ Top(ch).pc = "connect"
    /\ pool[c] = "idle"
    /\ FreshConn(c) => \A d \in Conns : d < c => ~FreshConn(d)
    /\ pool' = [pool EXCEPT ![c] = "out"]
    /\ stack' = SetTop(ch, [Top(ch) EXCEPT !.conn = c,
                               !.pc = IF Top(ch).op = "withLock" THEN "lock" ELSE "try"])
    /\ UNCHANGED <<held, inherited, started, creator, closures, ops>>
    /\ UNCHANGED otherVars

\* (variant: the wait ends only when no session at all holds the key)
lockAwaited_noReentry(f) == PgGrantable_noReentry(held, f.conn, f.key)

\* (variant: fn is started without awaiting the lock statement)
lockAwaited_not(f) == TRUE

\* withLock: await client.query("SELECT pg_advisory_lock($1)") resumes only
\* when the database has granted the lock.
lockAwaited(f) == PgGrantable(held, f.conn, f.key)

\* withLock: SELECT pg_advisory_lock($1) returns (it blocks until granted).
queryLock(ch) ==
    /\ started[ch] /\ stack[ch] # <<>>
    /\ Top(ch).pc = "lock"
    /\ lockAwaited(Top(ch))
    /\ held' = PgLock(held, Top(ch).conn, Top(ch).key)
    /\ stack' = SetTop(ch, [Top(ch) EXCEPT !.pc = "fn"])
    /\ UNCHANGED <<pool, inherited, started, creator, closures, ops>>
    /\ UNCHANGED otherVars

\* (variant: the finally that unlocks also covers the refused attempt)
tryWithLockFrame_unlockAnyway(f, acquired) ==
    IF acquired THEN [f EXCEPT !.pc = "fn"]
    ELSE [f EXCEPT !.res = "not_acquired", !.pc = "unlock"]

\* (variant: fn is run whatever the try-acquire statement answered)
tryWithLockFrame_alwaysRuns(f, acquired) == [f EXCEPT !.pc = "fn"]

\* tryWithLock: SELECT pg_try_advisory_lock($1) returns; fn runs only if acquired.
tryWithLockFrame(f, acquired) ==
    IF acquired THEN [f EXCEPT !.pc = "fn"]
    ELSE [f EXCEPT !.res = "not_acquired", !.pc = withClientFinally(f)]

queryTryWithLock(ch) ==
    /\ started[ch] /\ stack[ch] # <<>>
    /\ Top(ch).pc = "try" /\ Top(ch).op = "tryWithLock"
    /\ LET f == Top(ch)
           acquired == PgGrantable(held, f.conn, f.key) IN
       /\ held' = IF acquired THEN PgLock(held, f.conn, f.key) ELSE held
       /\ stack' = SetTop(ch, tryWithLockFrame(f, acquired))
    /\ UNCHANGED <<pool, inherited, started, creator, closures, ops>>
    /\ UNCHANGED otherVars

\* tryLock: SELECT pg_try_advisory_lock($1) returns; if not acquired the client
\* is released at once and undefined is returned.
queryTryLock(ch) ==
    /\ started[ch] /\ stack[ch] # <<>>
    /\ Top(ch).pc = "try" /\ Top(ch).op = "tryLock"
    /\ LET f == Top(ch)
           acquired == PgGrantable(held, f.conn, f.key) IN
       IF acquired
       THEN /\ held' = PgLock(held, f.conn, f.key)
            /\ stack' = SetTop(ch, [f EXCEPT !.res = "unlockFn", !.pc = "ret"])
            /\ pool' = pool
       ELSE /\ held' = held
            /\ stack' = SetTop(ch, [f EXCEPT !.res = "undefined", !.pc = "ret",
                                      !.rel = IF f.nested THEN 0 ELSE 1])
            /\ pool' = releaseFn(pool, f)
    /\ UNCHANGED <<inherited, started, creator, closures, ops>>
    /\ UNCHANGED otherVars

\* (variant: no finally, the unlock is skipped when fn throws)
fnFinally_noUnlockOnThrow(f, r) ==
    IF r \in Errors
    THEN [f EXCEPT !.fnres = r, !.res = r, !.pc = withClientFinally(f)]
    ELSE [f EXCEPT !.fnres = r, !.pc = "unlock"]

\* (variant: when fn throws, the operation starts over from its acquire
\* statement instead of unlocking)
fnFinally_retry(f, r) ==
    IF r \in Errors
    THEN [f EXCEPT !.pc = IF f.op = "withLock" THEN "lock" ELSE "try"]
    ELSE [f EXCEPT !.fnres = r, !.pc = "unlock"]

\* The function passed to withLock / tryWithLock returns or throws; control
\* enters the finally block that unlocks.
fnFinally(f, r) == [f EXCEPT !.fnres = r, !.pc = "unlock"]

fnSettles(ch, r) ==
    /\ started[ch] /\ stack[ch] # <<>>
    /\ Top(ch).pc = "fn"
    /\ stack' = SetTop(ch, fnFinally(Top(ch), r))
    /\ UNCHANGED <<pool, held, inherited, started, creator, closures, ops>>
    /\ UNCHANGED otherVars

fnReturns(ch) == fnSettles(ch, "value")

fnThrows(ch, e) == fnSettles(ch, e)

\* finally: SELECT pg_advisory_unlock($1) returns, and fn's outcome becomes the
\* outcome of the callback given to withClient.
queryUnlock(ch) ==
    /\ started[ch] /\ stack[ch] # <<>>
    /\ Top(ch).pc = "unlock" /\ Top(ch).op \in {"withLock", "tryWithLock"}
    /\ LET f == Top(ch) IN
       /\ held' = PgUnlock(held, f.conn, f.key)
       /\ stack' = SetTop(ch, [f EXCEPT
              !.res = IF f.op = "withLock" THEN withLockResult(f.fnres)
                                            ELSE tryWithLockResult(f.fnres),
              !.pc = withClientFinally(f)])
    /\ UNCHANGED <<pool, inherited, started, creator, closures, ops>>
    /\ UNCHANGED otherVars

\* withClient's finally of the call that took the client: release().
release(ch) ==
    /\ started[ch] /\ stack[ch] # <<>>
    /\ Top(ch).pc = "release"
    /\ pool' = clientRelease(pool, Top(ch).conn)
    /\ stack' = SetTop(ch, [Top(ch) EXCEPT !.pc = "ret", !.rel = @ + 1])
    /\ UNCHANGED <<held, inherited, started, creator, closures, ops>>
    /\ UNCHANGED otherVars

\* The awaited operation settles in the caller: the frame is left; an unlock
\* closure returned by tryLock is now in the caller's hands.
settle(ch) ==
    /\ started[ch] /\ stack[ch] # <<>>
    /\ Top(ch).pc = "ret"
    /\ stack' = Pop(ch)
    /\ closures' = IF Top(ch).res = "unlockFn"
                   THEN [closures EXCEPT ![ch] = Append(@,
                            [conn |-> Top(ch).conn, key |-> Top(ch).key,
                             nested |-> Top(ch).nested])]
                   ELSE closures
    /\ UNCHANGED <<pool, held, inherited, started, creator, ops>>
    /\ UNCHANGED otherVars

\* The unlock closure returned by tryLock is invoked: pg_advisory_unlock, then
\* release() in its finally.
callUnlock(ch, i) ==
    /\ InUserCode(ch)
    /\ i \in 1..Len(closures[ch])
    /\ LET u == closures[ch][i] IN
       stack' = Push(ch, [op |-> "unlock", key |-> u.key, conn |-> u.conn,
                          nested |-> u.nested, pc |-> "unlock",
                          fnres |-> "none", res |-> "none", rel |-> 0])
    /\ closures' = [closures EXCEPT ![ch] =
                       SubSeq(@, 1, i - 1) \o SubSeq(@, i + 1, Len(@))]
    /\ UNCHANGED <<pool, held, inherited, started, creator, ops>>
    /\ UNCHANGED otherVars

unlockFn(ch) ==
    /\ started[ch] /\ stack[ch] # <<>>
    /\ Top(ch).pc = "unlock" /\ Top(ch).op = "unlock"
    /\ LET f == Top(ch) IN
       /\ held' = PgUnlock(held, f.conn, f.key)
       /\ pool' = releaseFn(pool, f)
       /\ stack' = SetTop(ch, [f EXCEPT !.res = "value", !.pc = "ret",
                                 !.rel = IF f.nested THEN 0 ELSE 1])
    /\ UNCHANGED <<inherited, started, creator, closures, ops>>
    /\ UNCHANGED otherVars

\* User code inside a scope starts a concurrently running chain (a branch of
\* Promise.all, a continuation that is not awaited) which calls a lock
\* operation: the new asynchronous context carries the store of the context
\* that created it, and that store is what its getClient() finds.
spawn(ch, n, op, k) ==
    /\ InUserCode(ch)
    /\ getStore(ch) # NoConn
    /\ n \in Chains \ Roots
    /\ ~started[n]
    /\ \A m \in Chains \ Roots : m < n => started[m]
    /\ ops < MaxOps
    /\ ~KeyInUse(k) => \A j \in Keys : j < k => KeyInUse(j)
    /\ started' = [started EXCEPT ![n] = TRUE]
    /\ inherited' = [inherited EXCEPT ![n] = getStore(ch)]
    /\ creator' = [creator EXCEPT ![n] = ch]
    /\ stack' = [stack EXCEPT ![n] = <<NewFrame(getStore(ch), op, k)>>]
    /\ ops' = ops + 1
    /\ UNCHANGED <<pool, held, closures>>
    /\ UNCHANGED otherVars

\* ------------------------------------------------------------ specification
\* No AdvisoryLockMutex object has been constructed; no wrapped call is made.
NoMutex == <<>>

NoRun == <<>>

NoCoord == <<>>

Init ==
    /\ pool = [c \in Conns |-> "idle"]
    /\ held = [c \in Conns |-> [k \in Keys |-> 0]]
    /\ stack = [ch \in Chains |-> <<>>]
    /\ inherited = [ch \in Chains |-> NoConn]
    /\ started = [ch \in Chains |-> ch \in Roots]
    /\ creator = [ch \in Chains |-> 0]
    /\ closures = [ch \in Chains |-> <<>>]
    /\ ops = 0
    /\ faults = 0
    /\ mutex = NoMutex
    /\ run = NoRun
    /\ coord = NoCoord

Next ==
    \E ch \in Chains :
        \/ \E k \in Keys : callWithLock(ch, k)
        \/ \E k \in Keys : callTryWithLock(ch, k)
        \/ \E k \in Keys : callTryLock(ch, k)
        \/ \E c \in Conns : poolConnect(ch, c)
        \/ queryLock(ch)
        \/ queryTryWithLock(ch)
        \/ queryTryLock(ch)
        \/ fnReturns(ch)
        \/ \E e \in Errors : fnThrows(ch, e)
        \/ queryUnlock(ch)
        \/ release(ch)
        \/ settle(ch)
        \/ \E i \in 1..MaxClosures : callUnlock(ch, i)
        \/ unlockFn(ch)
        \/ \E n \in Chains, k \in Keys :
              \E op \in {"withLock", "tryWithLock", "tryLock"} : spawn(ch, n, op, k)

Spec == Init /\ [][Next]_vars

\* The event loop resumes every continuation whose awaited promise has settled
\* and the database answers every statement it can answer; a function passed
\* to withLock / tryWithLock terminates.
Resume(ch) ==
    \/ \E c \in Conns : poolConnect(ch, c)
    \/ queryLock(ch)
    \/ queryTryWithLock(ch)
    \/ queryTryLock(ch)
    \/ fnReturns(ch)
    \/ queryUnlock(ch)
    \/ release(ch)
    \/ settle(ch)
    \/ unlockFn(ch)

FairSpec == Spec /\ \A ch \in Chains : WF_vars(Resume(ch))

\* The weaker assumption: as long as some continuation can be resumed, one is.
ProgressSpec == Spec /\ WF_vars(\E ch \in Chains : Resume(ch))

\* ---------------------------------------------------------- key derivation
\* A bigint that is not negative is the sequence of its digits in base 2^16,
\* lowest first; a bigint is a sign and such a magnitude.
Base == 65536

\* a ^ b for two digits
RECURSIVE Xor16(_, _)
Xor16(a, b) ==
    IF a = 0 THEN b
    ELSE IF b = 0 THEN a
    ELSE ((a + b) % 2) + 2 * Xor16(a \div 2, b \div 2)

\* the digits of h * m from digit i on, given the carry into digit i
RECURSIVE MulFrom(_, _, _, _)
MulFrom(h, m, i, carry) ==
    IF i > Len(h) THEN <<carry>>
    ELSE <<(h[i] * m + carry) % Base>> \o MulFrom(h, m, i + 1, (h[i] * m + carry) \div Base)

\* hash * 33n
BigMul33(h) == MulFrom(h, 33, 1, 0)

\* n ^ BigInt(c), for a code unit c (0 .. 65535)
BigXorUnit(h, c) == [h EXCEPT ![1] = Xor16(@, c)]

\* the digits of h + c from digit i on (c is the carry into digit i)
RECURSIVE AddFrom(_, _, _)
AddFrom(h, i, c) ==
    IF i > Len(h) THEN <<c>>
    ELSE <<(h[i] + c) % Base>> \o AddFrom(h, i + 1, (h[i] + c) \div Base)

\* (variant: no mask, the hash grows without bound)
And64_none(h) == h

\* n & mask64, mask64 = (1n << 64n) - 1n
And64(h) == SubSeq(h, 1, 4)

\* (variant: the additive djb2, hash * 33 + c)
hashStep_plus(hash, c) == And64(AddFrom(BigMul33(hash), 1, c))

\* The loop body: hash = ((hash * 33n) ^ BigInt(str.charCodeAt(i))) & mask64
hashStep(hash, c) == And64(BigXorUnit(BigMul33(hash), c))

\* n >= (1n << 63n)
AtLeastPow63(n) == n[4] >= 32768 \/ \E i \in 5..Len(n) : n[i] > 0

\* n - 1 at digit i, borrowing from the digits above
RECURSIVE DecAt(_, _)
DecAt(n, i) ==
    IF n[i] > 0 THEN [n EXCEPT ![i] = @ - 1]
    ELSE DecAt([n EXCEPT ![i] = Base - 1], i + 1)

\* n - (1n << 64n): negative when n < 2^64, with magnitude 2^64 - n.
SubPow64(n) ==
    IF \E i \in 5..Len(n) : n[i] > 0
    THEN [neg |-> FALSE, mag |-> DecAt(n, 5)]
    ELSE [neg |-> TRUE,
          mag |-> SubSeq(AddFrom([i \in 1..4 |-> Base - 1 - n[i]], 1, 1), 1, 4)]

unsignedToSigned64(n) ==
    IF AtLeastPow63(n) THEN SubPow64(n) ELSE [neg |-> FALSE, mag |-> n]

\* (variant: the accumulator is not reset between calls)
hashSeed_stale ==
    IF mutex = <<>> THEN <<5381, 0, 0, 0>>
    ELSE SubSeq(mutex[Len(mutex)].lockKey.mag \o <<0, 0, 0, 0>>, 1, 4)

\* let hash = 5381n
hashSeed == <<5381, 0, 0, 0>>

\* for (let i = 0; i < str.length; i++) ...: the loop body applied to the
\* code units lo..hi in order, starting from hash (the range is split in two
\* halves, the second continuing from the result of the first).
RECURSIVE hashLoop(_, _, _, _)
hashLoop(str, lo, hi, hash) ==
    IF lo > hi THEN hash
    ELSE IF lo = hi THEN hashStep(hash, str[lo])
    ELSE LET mid == (lo + hi) \div 2
             first == hashLoop(str, lo, mid, hash)
         IN  IF Len(first) > 0 THEN hashLoop(str, mid + 1, hi, first) ELSE first

createAdvisoryLockKey(str) == unsignedToSigned64(hashLoop(str, 1, Len(str), hashSeed))

\* Strings are sequences of UTF-16 code units. The strings of key.test.ts:
TestStrings == <<
    <<102, 111, 111>>,
    <<98, 97, 114>>,
    <<71, 108, 105, 116, 116, 101, 114, 105, 110, 103, 32, 112, 114, 105,
      122, 101, 115>>,
    <<39, 74, 111, 105, 110, 32, 116, 104, 101, 32, 97, 114, 109, 121, 33,
      39, 44, 32, 116, 104, 101, 121, 32, 115, 97, 105, 100, 46, 32, 39,
      83, 101, 101, 32, 116, 104, 101, 32, 119, 111, 114, 108, 100, 33, 39,
      44, 32, 116, 104, 101, 121, 32, 115, 97, 105, 100, 46, 32, 73, 39,
      100, 32, 114, 97, 116, 104, 101, 114, 32, 98, 101, 32, 115, 97, 105,
      108, 105, 110, 103, 46>>
>>

Corpus ==
    {TestStrings[i] : i \in 1..Len(TestStrings)}
    \cup {TestStrings[i] \o TestStrings[j] : i \in 1..Len(TestStrings), j \in 1..Len(TestStrings)}

CodeUnits == {0, 97, 65535}

RECURSIVE StringsUpTo(_)
StringsUpTo(n) ==
    IF n = 0 THEN {<<>>}
    ELSE LET S == StringsUpTo(n - 1) IN
         S \cup {Append(t, c) : t \in S, c \in CodeUnits}

Names == Corpus \cup StringsUpTo(MaxNameLen)

\* new AdvisoryLockMutex(pool, name)
createMutex(name) ==
    /\ Len(mutex) < NMutex
    /\ mutex' = Append(mutex, [name |-> name, lockKey |-> createAdvisoryLockKey(name)])
    /\ UNCHANGED <<pool, held, stack, inherited, started, creator, closures, ops,
                   faults, run, coord>>

KeyNext == \E name \in Names : createMutex(name)

KeySpec == Init /\ [][KeyNext]_vars

\* ------------------------------------------------------------ wrapWithLock
\* The call wrapWithLock(name, fn)(...args) and the call
\* withLock(name, () => fn(...args)), each made on a database and a pool of its
\* own, side by side. run[Wrapped] and run[Direct] are the two calls.
Wrapped == 1
Direct == 2
Sides == {Wrapped, Direct}

ArgValues == {1, 2}

RECURSIVE ArgTuples(_)
ArgTuples(n) ==
    IF n = 0 THEN {<<>>}
    ELSE LET S == ArgTuples(n - 1) IN
         S \cup {Append(t, v) : t \in S, v \in ArgValues}

\* The functions given: sum resolves with the sum of its arguments (0 for
\* none), throws rejects with an error that carries its arguments.
Fns == {"sum", "throws"}

RECURSIVE SumOf(_)
SumOf(args) == IF args = <<>> THEN 0 ELSE args[1] + SumOf(Tail(args))

\* fn(...args)
applyFn(fn, args) ==
    IF fn = "sum" THEN [fnres |-> "value", out |-> <<SumOf(args)>>]
    ELSE [fnres |-> "FnError", out |-> args]

\* (variant: the wrapper calls fn without the arguments it was given)
wrapWithLock_noArgs(fn, args) == [fn |-> fn, bound |-> <<>>]

\* wrapWithLock(fn)(...args): the function handed to this.withLock is the
\* closure () => fn(...args).
wrapWithLock(fn, args) == [fn |-> fn, bound |-> args]

\* The closure () => fn(...args) written by the caller of withLock.
directThunk(fn, args) == [fn |-> fn, bound |-> args]

\* withLock(thunk) on key k starts, outside every scope, on a fresh pool.
startRun(thunk, k) ==
    [frame |-> NewFrame(NoConn, "withLock", k),
     thunk |-> thunk,
     pool |-> [c \in Conns |-> "idle"],
     held |-> [c \in Conns |-> [j \in Keys |-> 0]],
     events |-> <<>>,
     out |-> <<>>]

\* Both calls are made with the same name, function and arguments.
wrapCall(k, fn, args) ==
    /\ run = NoRun
    /\ run' = [s \in Sides |->
                 IF s = Wrapped THEN startRun(wrapWithLock(fn, args), k)
                                ELSE startRun(directThunk(fn, args), k)]
    /\ UNCHANGED <<pool, held, stack, inherited, started, creator, closures, ops,
                   faults, mutex, coord>>

lockVars == <<pool, held, stack, inherited, started, creator, closures, ops>>

\* await this.pool.connect()
runConnect(s, c) ==
    /\ run # NoRun
    /\ run[s].frame.pc = "connect"
    /\ run[s].pool[c] = "idle"
    /\ run' = [run EXCEPT ![s].pool[c] = "out",
                          ![s].frame.conn = c,
                          ![s].frame.pc = "lock",
                          ![s].events = Append(@, <<"connect">>)]
    /\ UNCHANGED <<lockVars, faults, mutex, coord>>

\* SELECT pg_advisory_lock($1) returns
runLock(s) ==
    /\ run # NoRun
    /\ run[s].frame.pc = "lock"
    /\ PgGrantable(run[s].held, run[s].frame.conn, run[s].frame.key)
    /\ run' = [run EXCEPT ![s].held = PgLock(@, run[s].frame.conn, run[s].frame.key),
                          ![s].frame.pc = "fn",
                          ![s].events = Append(@, <<"acquire", run[s].frame.key>>)]
    /\ UNCHANGED <<lockVars, faults, mutex, coord>>

\* return await fn(): the closure runs and settles
runFn(s) ==
    /\ run # NoRun
    /\ run[s].frame.pc = "fn"
    /\ LET t == run[s].thunk
           o == applyFn(t.fn, t.bound)
       IN  run' = [run EXCEPT ![s].frame = fnFinally(@, o.fnres),
                              ![s].out = o.out,
                              ![s].events = Append(@, <<"fn", t.fn, t.bound>>)]
    /\ UNCHANGED <<lockVars, faults, mutex, coord>>

\* finally: SELECT pg_advisory_unlock($1)
runUnlock(s) ==
    /\ run # NoRun
    /\ run[s].frame.pc = "unlock"
    /\ LET f == run[s].frame IN
       run' = [run EXCEPT ![s].held = PgUnlock(@, f.conn, f.key),
                          ![s].frame.res = withLockResult(f.fnres),
                          ![s].frame.pc = withClientFinally(f),
                          ![s].events = Append(@, <<"release lock", f.key>>)]
    /\ UNCHANGED <<lockVars, faults, mutex, coord>>

\* withClient's finally: release()
runRelease(s) ==
    /\ run # NoRun
    /\ run[s].frame.pc = "release"
    /\ run' = [run EXCEPT ![s].pool = clientRelease(@, run[s].frame.conn),
                          ![s].frame.pc = "ret",
                          ![s].frame.rel = @ + 1,
                          ![s].events = Append(@, <<"release client">>)]
    /\ UNCHANGED <<lockVars, faults, mutex, coord>>

\* The promise the caller holds settles (for the wrapped call, the promise of
\* the async wrapper, resolved with the promise of withLock).
runSettle(s) ==
    /\ run # NoRun
    /\ run[s].frame.pc = "ret"
    /\ run' = [run EXCEPT ![s].frame.pc = "done"]
    /\ UNCHANGED <<lockVars, faults, mutex, coord>>

WrapNext ==
    \/ \E k \in Keys, fn \in Fns, args \in ArgTuples(MaxArgs) : wrapCall(k, fn, args)
    \/ \E s \in Sides :
          \/ \E c \in Conns : runConnect(s, c)
          \/ runLock(s)
          \/ runFn(s)
          \/ runUnlock(s)
          \/ runRelease(s)
          \/ runSettle(s)

WrapSpec == Init /\ [][WrapNext]_vars

\* ------------------------------------------------------- two coordinators
\* createAdvisoryLock() is called twice: each result has a pg pool and a
\* NestingPool (with a connectionStorage) of its own; both pools connect to the
\* same database. One chain nests lock operations of the two coordinators.
\* coord.stack is the chain's stack; a frame is tagged with its coordinator.
Coords == {1, 2}

\* createAdvisoryLock(connection), twice
createAdvisoryLock ==
    [pool |-> [o \in Coords |-> [c \in Conns |-> "idle"]],
     held |-> [o \in Coords |-> [c \in Conns |-> [k \in Keys |-> 0]]],
     stack |-> <<>>]

CoTop == coord.stack[Len(coord.stack)]

\* (variant: one connectionStorage shared by all NestingPool objects)
coGetStore_shared(o) ==
    IF \E i \in 1..Len(coord.stack) : ~coord.stack[i].f.nested
    THEN coord.stack[CHOOSE i \in 1..Len(coord.stack) : ~coord.stack[i].f.nested].f.conn
    ELSE NoConn

\* this.connectionStorage.getStore() of coordinator o, in the user code of the
\* chain: the client that the outermost withClient of o passed to
\* connectionStorage.run().
coGetStore(o) ==
    IF \E i \in 1..Len(coord.stack) : coord.stack[i].co = o /\ ~coord.stack[i].f.nested
    THEN coord.stack[CHOOSE i \in 1..Len(coord.stack) :
                        coord.stack[i].co = o /\ ~coord.stack[i].f.nested].f.conn
    ELSE NoConn

\* Both coordinators come into being.
coCreate ==
    /\ coord = NoCoord
    /\ coord' = createAdvisoryLock
    /\ UNCHANGED <<lockVars, faults, mutex, run>>

\* withLock / tryWithLock of coordinator o is called by the chain's user code.
coCall(o, op, k) ==
    /\ coord # NoCoord
    /\ Len(coord.stack) < MaxCoDepth
    /\ coord.stack # <<>> => CoTop.f.pc = "fn"
    /\ coord' = [coord EXCEPT !.stack =
                    Append(@, [co |-> o, f |-> NewFrame(coGetStore(o), op, k)])]
    /\ UNCHANGED <<lockVars, faults, mutex, run>>

\* await this.pool.connect() on the pool of the frame's coordinator
coConnect(c) ==
    /\ coord # NoCoord /\ coord.stack # <<>>
    /\ CoTop.f.pc = "connect"
    /\ coord.pool[CoTop.co][c] = "idle"
    /\ coord' = [coord EXCEPT
          !.pool[CoTop.co][c] = "out",
          !.stack[Len(coord.stack)].f.conn = c,
          !.stack[Len(coord.stack)].f.pc = IF CoTop.f.op = "withLock" THEN "lock" ELSE "try"]
    /\ UNCHANGED <<lockVars, faults, mutex, run>>

\* The database grants key k to session c of coordinator o: no other session,
\* of either pool, holds it.
coGrantable(o, c, k) ==
    /\ PgGrantable(coord.held[o], c, k)
    /\ \A p \in Coords \ {o} : \A d \in Conns : coord.held[p][d][k] = 0

\* withLock: SELECT pg_advisory_lock($1) returns
coLock ==
    /\ coord # NoCoord /\ coord.stack # <<>>
    /\ CoTop.f.pc = "lock"
    /\ coGrantable(CoTop.co, CoTop.f.conn, CoTop.f.key)
    /\ coord' = [coord EXCEPT
          !.held[CoTop.co] = PgLock(@, CoTop.f.conn, CoTop.f.key),
          !.stack[Len(coord.stack)].f.pc = "fn"]
    /\ UNCHANGED <<lockVars, faults, mutex, run>>

\* tryWithLock: SELECT pg_try_advisory_lock($1) returns
coTry ==
    /\ coord # NoCoord /\ coord.stack # <<>>
    /\ CoTop.f.pc = "try"
    /\ LET acquired == coGrantable(CoTop.co, CoTop.f.conn, CoTop.f.key) IN
       coord' = [coord EXCEPT
          !.held[CoTop.co] = IF acquired THEN PgLock(@, CoTop.f.conn, CoTop.f.key) ELSE @,
          !.stack[Len(coord.stack)].f = tryWithLockFrame(@, acquired)]
    /\ UNCHANGED <<lockVars, faults, mutex, run>>

\* fn returns or throws
coFn(r) ==
    /\ coord # NoCoord /\ coord.stack # <<>>
    /\ CoTop.f.pc = "fn"
    /\ coord' = [coord EXCEPT !.stack[Len(coord.stack)].f = fnFinally(@, r)]
    /\ UNCHANGED <<lockVars, faults, mutex, run>>

\* finally: SELECT pg_advisory_unlock($1)
coUnlock ==
    /\ coord # NoCoord /\ coord.stack # <<>>
    /\ CoTop.f.pc = "unlock"
    /\ coord' = [coord EXCEPT
          !.held[CoTop.co] = PgUnlock(@, CoTop.f.conn, CoTop.f.key),
          !.stack[Len(coord.stack)].f.res =
              IF CoTop.f.op = "withLock" THEN withLockResult(CoTop.f.fnres)
                                         ELSE tryWithLockResult(CoTop.f.fnres),
          !.stack[Len(coord.stack)].f.pc = withClientFinally(CoTop.f)]
    /\ UNCHANGED <<lockVars, faults, mutex, run>>

\* withClient's finally: release()
coRelease ==
    /\ coord # NoCoord /\ coord.stack # <<>>
    /\ CoTop.f.pc = "release"
    /\ coord' = [coord EXCEPT
          !.pool[CoTop.co] = clientRelease(@, CoTop.f.conn),
          !.stack[Len(coord.stack)].f.pc = "ret",
          !.stack[Len(coord.stack)].f.rel = @ + 1]
    /\ UNCHANGED <<lockVars, faults, mutex, run>>

\* The call settles in its caller.
coSettle ==
    /\ coord # NoCoord /\ coord.stack # <<>>
    /\ CoTop.f.pc = "ret"
    /\ coord' = [coord EXCEPT !.stack = SubSeq(@, 1, Len(@) - 1)]
    /\ UNCHANGED <<lockVars, faults, mutex, run>>

CoordNext ==
    \/ coCreate
    \/ \E o \in Coords, k \in Keys : coCall(o, "withLock", k)
    \/ \E o \in Coords, k \in Keys : coCall(o, "tryWithLock", k)
    \/ \E c \in Conns : coConnect(c)
    \/ coLock
    \/ coTry
    \/ coFn("value")
    \/ \E e \in Errors : coFn(e)
    \/ coUnlock
    \/ coRelease
    \/ coSettle

CoordSpec == Init /\ [][CoordNext]_vars

\* ------------------------------------------------- failing infrastructure
\* (variant: a failed pool.connect() is followed by withClient's finally)
connectFailsFrame_cleanup(f) ==
    [f EXCEPT !.res = "ConnectError", !.pc = withClientFinally(f)]

\* await this.pool.connect() rejects: getClient() rejects before withClient
\* reaches connectionStorage.run() and before tryLock enters its try block.
connectFailsFrame(f) == [f EXCEPT !.res = "ConnectError", !.pc = "ret"]

poolConnectFails(ch) ==
    /\ started[ch] /\ stack[ch] # <<>>
    /\ Top(ch).pc = "connect"
    /\ faults < MaxFaults
    /\ stack' = SetTop(ch, connectFailsFrame(Top(ch)))
    /\ faults' = faults + 1
    /\ UNCHANGED <<pool, held, inherited, started, creator, closures, ops, mutex, run, coord>>

\* (variant: the acquire statement is inside the try block that unlocks)
acquireFailsFrame_unlocks(f) == [f EXCEPT !.pc = "unlock"]

\* withLock / tryWithLock: the acquire statement is outside the try block, so
\* the callback of withClient rejects and withClient's finally follows.
acquireFailsFrame(f) == [f EXCEPT !.res = "AcquireError", !.pc = withClientFinally(f)]

\* (variant: a catch block that rethrows without release())
tryLockCatch_noRelease(f) == [f EXCEPT !.res = "AcquireError", !.pc = "ret"]

\* tryLock: the catch block runs release() (client.release() unless the client
\* was reused) and rethrows the error.
tryLockCatch(f) ==
    [f EXCEPT !.res = "AcquireError", !.pc = "ret", !.rel = IF f.nested THEN 0 ELSE 1]

\* The acquire statement rejects.
queryLockFails(ch) ==
    /\ started[ch] /\ stack[ch] # <<>>
    /\ Top(ch).pc \in {"lock", "try"}
    /\ faults < MaxFaults
    /\ LET f == Top(ch) IN
       IF f.op = "tryLock"
       THEN /\ stack' = SetTop(ch, tryLockCatch(f))
            /\ pool' = IF tryLockCatch(f).rel > f.rel THEN releaseFn(pool, f) ELSE pool
       ELSE /\ stack' = SetTop(ch, acquireFailsFrame(f))
            /\ pool' = pool
    /\ faults' = faults + 1
    /\ UNCHANGED <<held, inherited, started, creator, closures, ops, mutex, run, coord>>

\* (variant: neither the unlock closure nor withClient has a finally)
unlockFailsFrame_noRelease(f) == [f EXCEPT !.res = "ReleaseError", !.pc = "ret"]

\* The unlock statement rejects. In withLock / tryWithLock it runs in the
\* finally block, so its error becomes the outcome of the callback whatever
\* fn did, and withClient's finally follows. In the unlock closure the finally
\* runs release() and the error leaves the closure.
unlockFailsFrame(f) ==
    IF f.op = "unlock"
    THEN [f EXCEPT !.res = "ReleaseError", !.pc = "ret",
                   !.rel = IF f.nested THEN 0 ELSE 1]
    ELSE [f EXCEPT !.res = "ReleaseError", !.pc = withClientFinally(f)]

\* The unlock statement rejects; the session keeps its hold.
queryUnlockFails(ch) ==
    /\ started[ch] /\ stack[ch] # <<>>
    /\ Top(ch).pc = "unlock"
    /\ faults < MaxFaults
    /\ LET f == Top(ch) IN
       /\ stack' = SetTop(ch, unlockFailsFrame(f))
       /\ pool' = IF unlockFailsFrame(f).rel > f.rel THEN releaseFn(pool, f) ELSE pool
    /\ faults' = faults + 1
    /\ UNCHANGED <<held, inherited, started, creator, closures, ops, mutex, run, coord>>

NextFault ==
    \/ Next
    \/ \E ch \in Chains :
          \/ poolConnectFails(ch)
          \/ queryLockFails(ch)
          \/ queryUnlockFails(ch)

FaultSpec == Init /\ [][NextFault]_vars

\* ------------------------------------------------------------- properties
Frames(ch) == 1..Len(stack[ch])

BracketOps == {"withLock", "tryWithLock"}

\* The frame holds one of the stacked holds of its session on its key: the
\* acquire statement was granted and the matching unlock has not run.
Holds(f) ==
    \/ f.op \in BracketOps /\ f.pc \in {"fn", "unlock"}
    \/ f.op = "tryLock" /\ f.res = "unlockFn"
    \/ f.op = "unlock" /\ f.pc = "unlock"

\* Nothing holds key k: no operation in progress and no uninvoked closure.
NoHolder(k) ==
    \A ch \in Chains :
        /\ \A i \in Frames(ch) : stack[ch][i].key = k => ~Holds(stack[ch][i])
        /\ \A i \in 1..Len(closures[ch]) : closures[ch][i].key # k

Free(k) == \A c \in Conns : held[c][k] = 0

\* A call made outside every scope: it found no stored client and took its own.
Outermost(f) == ~f.nested

\* Frame j of chain ch is nested in a bracketing operation of the same chain
\* on the same key.
NestedOnSameKey(ch, j) ==
    \E i \in 1..(j - 1) :
        /\ stack[ch][i].op \in BracketOps
        /\ stack[ch][i].key = stack[ch][j].key

TypeOK ==
    /\ pool \in [Conns -> {"idle", "out"}]
    /\ \A c \in Conns, k \in Keys : held[c][k] \in 0..(MaxOps + 1)
    /\ \A ch \in Chains : Len(stack[ch]) <= MaxDepth + 1
    /\ ops \in 0..MaxOps

\* C1. Mutual exclusion: the functions of two withLock calls on the same key,
\* made from independent call chains (each call outside every scope), never
\* run at the same time.
C1_MutualExclusion ==
    \A a \in Chains, b \in Chains : \A i \in Frames(a), j \in Frames(b) :
        (/\ a # b
         /\ stack[a][i].op = "withLock" /\ stack[b][j].op = "withLock"
         /\ Outermost(stack[a][i]) /\ Outermost(stack[b][j])
         /\ stack[a][i].pc = "fn" /\ stack[b][j].pc = "fn")
        => stack[a][i].key # stack[b][j].key

\* One chain runs its function under the lock while an independent withLock
\* on the same key waits for it.
C1_Witness ==
    \E a \in Chains, b \in Chains :
        /\ a # b /\ stack[a] # <<>> /\ stack[b] # <<>>
        /\ stack[a][1].op = "withLock" /\ stack[b][1].op = "withLock"
        /\ Outermost(stack[a][1]) /\ Outermost(stack[b][1])
        /\ stack[a][1].key = stack[b][1].key
        /\ stack[a][1].pc = "fn" /\ stack[b][1].pc = "lock"

\* C2. I4 as claimed: a client that is in the pool holds no advisory lock, after
\* any sequence of withLock, tryWithLock, tryLock and late unlock closures
\* (no concurrently running chain is needed to refute it).
C2_IdleHoldsNoLock ==
    (\A n \in Chains \ Roots : ~started[n])
    => \A c \in Conns : pool[c] = "idle" => \A k \in Keys : held[c][k] = 0

\* C3. I2: a client taken from the pool is released exactly once, by the call
\* that took it and when that call completes; a call that reused the client
\* never releases it.
C3_ReleasedOnce ==
    \A ch \in Chains : \A i \in Frames(ch) :
        LET f == stack[ch][i] IN
        /\ f.nested => f.rel = 0
        /\ (Outermost(f) /\ f.pc \notin {"connect", "ret"})
               => f.rel = 0 /\ pool[f.conn] = "out"
        /\ (Outermost(f) /\ f.pc = "ret")
               => f.rel = (IF f.res = "unlockFn" THEN 0 ELSE 1)
        /\ (Outermost(f) /\ f.res = "unlockFn") => pool[f.conn] = "out"

\* A nested call has completed on the client of the outermost call, which is
\* still checked out and has not been released.
C3_Witness ==
    \E ch \in Chains :
        /\ Len(stack[ch]) = 2
        /\ Outermost(stack[ch][1]) /\ stack[ch][1].pc = "fn"
        /\ stack[ch][2].nested /\ stack[ch][2].pc = "ret"
        /\ stack[ch][2].op \in BracketOps
        /\ stack[ch][2].conn = stack[ch][1].conn
        /\ pool[stack[ch][1].conn] = "out"

\* A statement of chain ch is in flight on client c.
InFlight(ch, c) ==
    \E i \in Frames(ch) :
        stack[ch][i].conn = c /\ stack[ch][i].pc \in {"lock", "try", "unlock"}

\* C4. As claimed: no two call chains have statements in flight on the same
\* client at the same time.
C4_OneChainPerClient ==
    \A a \in Chains, b \in Chains :
        a # b => ~ \E c \in Conns : InFlight(a, c) /\ InFlight(b, c)

\* C5. As claimed: two branches started concurrently inside a scope, each
\* performing a lock operation, run on different clients.
C5_BranchesOwnClient ==
    \A a \in Chains \ Roots, b \in Chains \ Roots :
        (/\ a # b /\ started[a] /\ started[b]
         /\ creator[a] = creator[b]
         /\ stack[a] # <<>> /\ stack[b] # <<>>
         /\ inherited[a] = inherited[b])
        => stack[a][1].conn # stack[b][1].conn

\* C6. A withLock nested in a withLock on the same key of the same chain runs
\* on the client of the enclosing call, takes none from the pool, is never
\* made to wait (its acquire is grantable whenever it is pending, and while it
\* is the innermost call of its chain its next step can always be taken), and
\* settles with the outcome of its function.
C6_NestedWithLock ==
    \A ch \in Chains : \A i \in Frames(ch), j \in Frames(ch) :
        LET o == stack[ch][i]
            f == stack[ch][j] IN
        (i < j /\ o.op = "withLock" /\ f.op = "withLock" /\ o.key = f.key)
        => /\ f.nested /\ f.conn = o.conn
           /\ f.pc # "connect" /\ f.pc # "release" /\ f.rel = 0
           /\ f.pc = "lock" => PgGrantable(held, f.conn, f.key)
           /\ j = Len(stack[ch]) => ENABLED Resume(ch)
           /\ f.pc = "ret" => f.res = f.fnres

\* C6, completion: under FairSpec every such nested withLock is left again.
NestedWithLockPending(ch) ==
    \E i \in Frames(ch), j \in Frames(ch) :
        /\ i < j
        /\ stack[ch][i].op = "withLock" /\ stack[ch][j].op = "withLock"
        /\ stack[ch][i].key = stack[ch][j].key

C6_NestedCompletes ==
    /\ []C6_NestedWithLock
    /\ \A ch \in Chains : NestedWithLockPending(ch) ~> ~NestedWithLockPending(ch)

\* The function of a withLock runs nested in a withLock on the same key.
C6_Witness ==
    \E ch \in Chains :
        /\ Len(stack[ch]) >= 2
        /\ stack[ch][1].op = "withLock" /\ stack[ch][2].op = "withLock"
        /\ stack[ch][1].key = stack[ch][2].key
        /\ stack[ch][2].pc = "fn"
        /\ held[stack[ch][1].conn][stack[ch][1].key] = 2

\* C7. An operation nested in withLock / tryWithLock on the same key of the
\* same chain is granted the lock without waiting: a blocking acquire is
\* grantable whenever it is pending, a non-blocking one reports success.
C7_NestedNeverBlocks ==
    \A ch \in Chains : \A j \in Frames(ch) :
        LET f == stack[ch][j] IN
        (f.op \in {"withLock", "tryWithLock", "tryLock"} /\ NestedOnSameKey(ch, j))
        => /\ f.pc \in {"lock", "try"} => PgGrantable(held, f.conn, f.key)
           /\ f.res # "not_acquired" /\ f.res # "undefined"
           /\ f.pc # "connect"

\* A tryLock nested in a tryWithLock on the same key has been granted.
C7_Witness ==
    \E ch \in Chains :
        /\ Len(stack[ch]) = 2
        /\ stack[ch][1].op = "tryWithLock" /\ stack[ch][1].pc = "fn"
        /\ stack[ch][2].op = "tryLock" /\ stack[ch][2].res = "unlockFn"
        /\ stack[ch][1].key = stack[ch][2].key

\* C8. While the function of an outermost withLock on k runs, a tryWithLock on
\* k from another independent chain is not granted; once that withLock has
\* unlocked, whether its function returned or threw, it has left no hold
\* behind: k is free unless some other operation holds it.
C8_UnavailableThenAvailable ==
    \A a \in Chains : \A i \in Frames(a) :
        LET f == stack[a][i] IN
        (f.op = "withLock" /\ Outermost(f))
        => /\ f.pc = "fn" =>
                 \A b \in Chains \ {a} : \A j \in Frames(b) :
                     LET g == stack[b][j] IN
                     (g.op = "tryWithLock" /\ Outermost(g) /\ g.key = f.key)
                     => /\ g.pc = "try" => ~PgGrantable(held, g.conn, g.key)
                        /\ g.pc \notin {"fn", "unlock"}
           /\ (f.pc \in {"release", "ret"} /\ NoHolder(f.key)) => Free(f.key)

\* A withLock whose function threw has completed, and the tryWithLock of
\* another chain on the same key has then been granted.
C8_Witness ==
    \E a \in Chains, b \in Chains :
        /\ a # b /\ stack[a] # <<>> /\ stack[b] # <<>>
        /\ stack[a][1].op = "withLock" /\ Outermost(stack[a][1])
        /\ stack[a][1].pc = "ret" /\ stack[a][1].fnres \in Errors
        /\ stack[b][1].op = "tryWithLock" /\ Outermost(stack[b][1])
        /\ stack[b][1].key = stack[a][1].key
        /\ stack[b][1].pc = "fn"

\* C9. When the function of withLock throws, then before the error settles in
\* the caller the lock has been unlocked and the call that took the client
\* has released it (a nested call leaves the release to that call); the error
\* is the one the function threw, and the key can be locked again.
C9_ThrowReleases ==
    \A ch \in Chains : \A i \in Frames(ch) :
        LET f == stack[ch][i] IN
        (f.op = "withLock" /\ f.fnres \in Errors)
        => /\ f.pc \in {"unlock", "release", "ret"}
           /\ f.pc \in {"release", "ret"} =>
                 (NoHolder(f.key) => \A c \in Conns : PgGrantable(held, c, f.key))
           /\ f.pc = "ret" => /\ f.res = f.fnres
                              /\ f.rel = (IF Outermost(f) THEN 1 ELSE 0)

\* The error of the function is about to settle in the caller of an outermost
\* withLock, whose client is back in the pool with the key free.
C9_Witness ==
    \E ch \in Chains :
        /\ Len(stack[ch]) = 1
        /\ stack[ch][1].op = "withLock" /\ Outermost(stack[ch][1])
        /\ stack[ch][1].pc = "ret" /\ stack[ch][1].res \in Errors
        /\ pool[stack[ch][1].conn] = "idle"
        /\ Free(stack[ch][1].key)

\* C10. While the function of withLock / a granted tryWithLock runs, the
\* session of its client holds the key and no other session can be granted
\* it, also after an operation nested on the same key has unlocked.
C10_OuterStillHolds ==
    \A ch \in Chains : \A i \in Frames(ch) :
        LET f == stack[ch][i] IN
        (f.op \in BracketOps /\ f.pc = "fn")
        => /\ held[f.conn][f.key] >= 1
           /\ \A d \in Conns \ {f.conn} :
                  held[d][f.key] = 0 /\ ~PgGrantable(held, d, f.key)

\* A nested withLock / tryWithLock on the key of the enclosing withLock has
\* completed and unlocked; the enclosing function is still running.
C10_Witness ==
    \E ch \in Chains :
        /\ Len(stack[ch]) = 2
        /\ stack[ch][1].op = "withLock" /\ stack[ch][1].pc = "fn"
        /\ stack[ch][2].op \in BracketOps /\ stack[ch][2].pc = "ret"
        /\ stack[ch][2].res \in {"value", "acquired"}
        /\ stack[ch][2].key = stack[ch][1].key
        /\ held[stack[ch][1].conn][stack[ch][1].key] = 1

\* Two outermost tryWithLock calls on one key, made by different chains.
RacingTryWithLock(a, i, b, j) ==
    /\ a # b
    /\ stack[a][i].op = "tryWithLock" /\ stack[b][j].op = "tryWithLock"
    /\ Outermost(stack[a][i]) /\ Outermost(stack[b][j])
    /\ stack[a][i].key = stack[b][j].key

\* C11 as claimed: of two tryWithLock calls on one key that are in progress at
\* the same time in independent chains (the only operations ever started),
\* exactly one reports acquired and the other reports not acquired.
C11_ExactlyOneAcquires ==
    \A a \in Chains, b \in Chains :
        (/\ ops = 2 /\ Len(stack[a]) = 1 /\ Len(stack[b]) = 1
         /\ RacingTryWithLock(a, 1, b, 1)
         /\ stack[a][1].pc = "ret" /\ stack[b][1].pc = "ret"
         /\ stack[a][1].res \notin Errors /\ stack[b][1].res \notin Errors)
        => {stack[a][1].res, stack[b][1].res} = {"acquired", "not_acquired"}

\* C11, amended: of two tryWithLock calls on one key from independent chains,
\* at most one holds the lock at any time; the one whose try-acquire statement
\* is answered while the other holds the lock is not granted; and when they are
\* the only operations, they do not both report not acquired.
C11_AtMostOneHolds ==
    \A a \in Chains, b \in Chains : \A i \in Frames(a), j \in Frames(b) :
        RacingTryWithLock(a, i, b, j)
        => /\ ~(stack[a][i].pc \in {"fn", "unlock"} /\ stack[b][j].pc \in {"fn", "unlock"})
           /\ (stack[a][i].pc \in {"fn", "unlock"} /\ stack[b][j].pc = "try")
                  => ~PgGrantable(held, stack[b][j].conn, stack[b][j].key)
           /\ ops = 2 => ~(stack[a][i].res = "not_acquired" /\ stack[b][j].res = "not_acquired")

\* One tryWithLock runs its function; the other, answered meanwhile, is about
\* to report that it did not acquire the lock.
C11_Witness ==
    \E a \in Chains, b \in Chains :
        /\ Len(stack[a]) = 1 /\ Len(stack[b]) = 1
        /\ RacingTryWithLock(a, 1, b, 1)
        /\ stack[a][1].pc = "fn"
        /\ stack[b][1].pc = "ret" /\ stack[b][1].res = "not_acquired"

\* C12. A tryWithLock nested in a withLock on the same key of the same chain
\* runs on the client of the withLock, is granted whenever its try-acquire
\* statement is pending, never reports not acquired, and settles only after
\* its function ran: with acquired, or with the error the function threw.
C12_NestedTryWithLock ==
    \A ch \in Chains : \A i \in Frames(ch), j \in Frames(ch) :
        LET o == stack[ch][i]
            f == stack[ch][j] IN
        (i < j /\ o.op = "withLock" /\ f.op = "tryWithLock" /\ o.key = f.key)
        => /\ f.nested /\ f.conn = o.conn /\ f.pc # "connect"
           /\ f.pc = "try" => PgGrantable(held, f.conn, f.key)
           /\ f.res # "not_acquired"
           /\ f.pc = "ret" => /\ f.fnres # "none"
                              /\ f.res = (IF f.fnres \in Errors THEN f.fnres ELSE "acquired")

\* The tryWithLock nested in a withLock on the same key reports acquired while
\* the function of the withLock is still running.
C12_Witness ==
    \E ch \in Chains :
        /\ Len(stack[ch]) = 2
        /\ stack[ch][1].op = "withLock" /\ stack[ch][1].pc = "fn"
        /\ stack[ch][2].op = "tryWithLock" /\ stack[ch][2].key = stack[ch][1].key
        /\ stack[ch][2].pc = "ret" /\ stack[ch][2].res = "acquired"
        /\ stack[ch][2].fnres = "value"

\* The try-acquire statement of the tryWithLock on top of chain ch is pending
\* and another session holds the key.
TryRefused(ch) ==
    /\ stack[ch] # <<>>
    /\ Top(ch).op = "tryWithLock" /\ Top(ch).pc = "try"
    /\ ~PgGrantable(held, Top(ch).conn, Top(ch).key)

\* C13. A tryWithLock that is not granted the lock changes no session's holds,
\* reports not acquired, does not run its function and never reaches the
\* unlock statement: it goes straight to the end of withClient.
C13_RefusedStep ==
    \A ch \in Chains :
        (TryRefused(ch) /\ stack'[ch] # stack[ch])
        => /\ held' = held
           /\ Len(stack'[ch]) = Len(stack[ch])
           /\ stack'[ch][Len(stack[ch])].res = "not_acquired"
           /\ stack'[ch][Len(stack[ch])].fnres = "none"
           /\ stack'[ch][Len(stack[ch])].pc \in {"release", "ret"}

C13_RefusedState ==
    \A ch \in Chains : \A i \in Frames(ch) :
        stack[ch][i].res = "not_acquired"
        => /\ stack[ch][i].op = "tryWithLock"
           /\ stack[ch][i].fnres = "none"
           /\ stack[ch][i].pc \in {"release", "ret"}

C13_NotGranted == [][C13_RefusedStep]_vars /\ []C13_RefusedState

\* A tryWithLock is about to report not acquired; the withLock of another
\* chain that made it fail still runs its function and still holds the key.
C13_Witness ==
    \E a \in Chains, b \in Chains :
        /\ a # b /\ Len(stack[a]) = 1 /\ Len(stack[b]) = 1
        /\ stack[a][1].op = "withLock" /\ stack[a][1].pc = "fn"
        /\ stack[b][1].op = "tryWithLock" /\ stack[b][1].key = stack[a][1].key
        /\ stack[b][1].pc = "ret" /\ stack[b][1].res = "not_acquired"
        /\ stack[b][1].fnres = "none"
        /\ held[stack[a][1].conn][stack[a][1].key] = 1

\* C14. A tryWithLock that was granted the lock holds it while its function
\* runs; once the function has returned or thrown, the unlock statement runs
\* before anything else, and the call then settles with acquired if the
\* function returned and with the function's error if it threw; it leaves no
\* hold behind, so the key is free unless another operation holds it.
C14_GrantedReleases ==
    \A ch \in Chains : \A i \in Frames(ch) :
        LET f == stack[ch][i] IN
        f.op = "tryWithLock"
        => /\ f.pc = "fn" => held[f.conn][f.key] >= 1 /\ f.fnres = "none"
           /\ f.fnres # "none" => f.pc \in {"unlock", "release", "ret"}
           /\ (f.fnres # "none" /\ f.pc \in {"release", "ret"})
                  => /\ f.res = (IF f.fnres \in Errors THEN f.fnres ELSE "acquired")
                     /\ NoHolder(f.key) => \A c \in Conns : PgGrantable(held, c, f.key)

\* The error thrown by the function of a granted outermost tryWithLock is
\* about to settle in the caller; the key is free and the client back in the pool.
C14_Witness ==
    \E ch \in Chains :
        /\ Len(stack[ch]) = 1
        /\ stack[ch][1].op = "tryWithLock" /\ Outermost(stack[ch][1])
        /\ stack[ch][1].pc = "ret" /\ stack[ch][1].res \in Errors
        /\ Free(stack[ch][1].key)
        /\ pool[stack[ch][1].conn] = "idle"

\* C15. Holds on one key never stand in the way of another key: whenever the
\* acquire statement of an outermost withLock / tryWithLock on k is pending
\* and no operation holds k, the statement is grantable and the chain's next
\* step can be taken, whatever is held on other keys.
C15_KeysIndependent ==
    \A ch \in Chains : \A i \in Frames(ch) :
        LET f == stack[ch][i] IN
        (f.op \in BracketOps /\ Outermost(f) /\ f.pc \in {"lock", "try"}
            /\ NoHolder(f.key))
        => /\ PgGrantable(held, f.conn, f.key)
           /\ i = Len(stack[ch]) => ENABLED Resume(ch)

\* Two independent chains run their functions at the same time, each under
\* its own key.
C15_Witness ==
    \E a \in Chains, b \in Chains :
        /\ a # b /\ Len(stack[a]) = 1 /\ Len(stack[b]) = 1
        /\ stack[a][1].op \in BracketOps /\ stack[b][1].op \in BracketOps
        /\ Outermost(stack[a][1]) /\ Outermost(stack[b][1])
        /\ stack[a][1].key # stack[b][1].key
        /\ stack[a][1].pc = "fn" /\ stack[b][1].pc = "fn"
        /\ held[stack[a][1].conn][stack[a][1].key] = 1
        /\ held[stack[b][1].conn][stack[b][1].key] = 1

\* The acquire of the withLock on top of chain ch can go ahead: a client is
\* idle in the pool if it waits for one, the database can grant the key if it
\* waits for the lock (true when it waits for neither).
Unblocked(ch) ==
    (stack[ch] # <<>> /\ Top(ch).op = "withLock")
    => /\ Top(ch).pc = "connect" => \E c \in Conns : pool[c] = "idle"
       /\ Top(ch).pc = "lock" => PgGrantable(held, Top(ch).conn, Top(ch).key)

WithLockWaiting(ch) ==
    stack[ch] # <<>> /\ Top(ch).op = "withLock" /\ Top(ch).pc \in {"connect", "lock"}

WithLockRunning(ch) ==
    stack[ch] # <<>> /\ Top(ch).op = "withLock" /\ Top(ch).pc = "fn"

WithLockLeaving(ch) ==
    stack[ch] # <<>> /\ Top(ch).op = "withLock" /\ Top(ch).pc \in {"unlock", "release"}

\* C16. Under fair scheduling, in every behaviour in which the holders of the
\* key (and of the pool's clients) let go again and again, a withLock that
\* waits is eventually granted the lock and runs its function; and a withLock
\* whose function runs, or that is unlocking and releasing, does not stay
\* there: the function settles (or awaits a further operation), the unlock
\* and the release are carried out and the call settles.
C16_WithLockProgress ==
    \A ch \in Chains :
        ([]<>Unblocked(ch))
        => /\ WithLockWaiting(ch) ~> WithLockRunning(ch)
           /\ (WithLockRunning(ch) \/ WithLockLeaving(ch))
                  ~> ~(WithLockRunning(ch) \/ WithLockLeaving(ch))

\* A withLock waits for the key while the withLock of another chain, whose
\* function has returned, is about to unlock it.
C16_Witness ==
    \E a \in Chains, b \in Chains :
        /\ a # b /\ Len(stack[a]) = 1 /\ Len(stack[b]) = 1
        /\ stack[a][1].op = "withLock" /\ stack[b][1].op = "withLock"
        /\ stack[a][1].key = stack[b][1].key
        /\ stack[a][1].pc = "unlock" /\ stack[a][1].fnres = "value"
        /\ stack[b][1].pc = "lock"
        /\ ~PgGrantable(held, stack[b][1].conn, stack[b][1].key)

\* No operation is in progress and every unlock closure has been invoked.
Quiescent == \A ch \in Chains : stack[ch] = <<>> /\ closures[ch] = <<>>

\* Chain ch is the only one with an operation in progress, and no unlock
\* closure is outstanding.
Alone(ch) ==
    /\ stack[ch] # <<>>
    /\ \A o \in Chains \ {ch} : stack[o] = <<>>
    /\ \A o \in Chains : closures[o] = <<>>

NestedWithClient(ch, j) == stack[ch][j].op \in BracketOps /\ stack[ch][j].nested

\* C18. A withClient that finds a stored client (withLock / tryWithLock called
\* where getStore() is set) runs on that client, never waits for the pool, never
\* calls release(), and none of its steps changes the pool or the store: a
\* root chain's enclosing call still has the client checked out.
C18_NestedState ==
    \A ch \in Chains : \A j \in Frames(ch) :
        NestedWithClient(ch, j)
        => /\ stack[ch][j].conn = getStore(ch)
           /\ stack[ch][j].pc \notin {"connect", "release"}
           /\ stack[ch][j].rel = 0
           /\ ch \in Roots => pool[stack[ch][j].conn] = "out"

C18_NestedStep ==
    \A ch \in Chains :
        (/\ stack[ch] # <<>> /\ NestedWithClient(ch, Len(stack[ch]))
         /\ stack'[ch] # stack[ch])
        => /\ pool' = pool
           /\ stack'[ch] # <<>> => getStore(ch)' = getStore(ch)

C18_ReusesBoundClient == []C18_NestedState /\ [][C18_NestedStep]_vars

\* The function of a nested tryWithLock threw: the call is about to settle
\* with the error, on the client of the enclosing withLock, which is still
\* checked out.
C18_Witness ==
    \E ch \in Chains :
        /\ Len(stack[ch]) = 2
        /\ Outermost(stack[ch][1]) /\ stack[ch][1].op = "withLock"
        /\ stack[ch][1].pc = "fn"
        /\ NestedWithClient(ch, 2) /\ stack[ch][2].op = "tryWithLock"
        /\ stack[ch][2].pc = "ret" /\ stack[ch][2].res \in Errors
        /\ stack[ch][2].conn = stack[ch][1].conn
        /\ pool[stack[ch][1].conn] = "out"

\* Client c is used by a call other than frame i of chain ch that took it
\* from the pool, or by an unlock closure that has yet to release it.
TakenAgain(ch, i, c) ==
    \/ \E o \in Chains : \E j \in Frames(o) :
           <<o, j>> # <<ch, i>> /\ Outermost(stack[o][j]) /\ stack[o][j].conn = c
    \/ \E o \in Chains : \E j \in 1..Len(closures[o]) :
           closures[o][j].conn = c /\ ~closures[o][j].nested

\* C19. When the function run by an outermost withClient (through withLock /
\* tryWithLock) throws, the call has released its client exactly once when it
\* settles, it settles with that error, the client is idle in the pool unless
\* a later call took it, and after the call has settled the chain has no
\* stored client.
C19_FailedState ==
    \A ch \in Chains : \A i \in Frames(ch) :
        LET f == stack[ch][i] IN
        (f.op \in BracketOps /\ Outermost(f) /\ f.fnres \in Errors)
        => /\ f.pc \in {"unlock", "release", "ret"}
           /\ f.pc # "ret" => f.rel = 0 /\ pool[f.conn] = "out"
           /\ f.pc = "ret" => /\ f.rel = 1 /\ f.res = f.fnres
                              /\ ~TakenAgain(ch, i, f.conn) => pool[f.conn] = "idle"

C19_FailedStep ==
    \A ch \in Chains :
        (/\ Len(stack[ch]) = 1 /\ stack'[ch] = <<>>
         /\ stack[ch][1].op \in BracketOps /\ Outermost(stack[ch][1])
         /\ stack[ch][1].res \in Errors)
        => /\ getStore(ch)' = NoConn
           /\ pool' = pool

C19_OutermostFailure == []C19_FailedState /\ [][C19_FailedStep]_vars

\* An outermost tryWithLock whose function threw has settled its caller's
\* await with the error, and the withLock of another chain has since taken
\* the same client from the pool.
C19_Witness ==
    \E a \in Chains, b \in Chains :
        /\ a # b /\ Len(stack[a]) = 1 /\ Len(stack[b]) = 1
        /\ stack[a][1].op = "tryWithLock" /\ Outermost(stack[a][1])
        /\ stack[a][1].pc = "ret" /\ stack[a][1].res \in Errors
        /\ stack[a][1].rel = 1
        /\ stack[b][1].op = "withLock" /\ Outermost(stack[b][1])
        /\ stack[b][1].conn = stack[a][1].conn
        /\ stack[b][1].pc = "fn"

\* The scope of an outermost withClient on client c is open: the call took c
\* and has not settled yet.
ScopeOpen(c) ==
    \E ch \in Chains : \E i \in Frames(ch) :
        /\ stack[ch][i].op \in BracketOps /\ Outermost(stack[ch][i])
        /\ stack[ch][i].conn = c
        /\ stack[ch][i].pc \notin {"connect", "ret"}

\* C20 as claimed: an operation that starts when the outermost withClient on a
\* client has settled finds no stored client: whenever a chain starts an
\* operation that reuses a client, the scope that stored this client is open.
C20_StartStep ==
    \A ch \in Chains :
        (/\ Len(stack'[ch]) = Len(stack[ch]) + 1
         /\ stack'[ch][Len(stack'[ch])].op # "unlock"
         /\ stack'[ch][Len(stack'[ch])].nested)
        => ScopeOpen(stack'[ch][Len(stack'[ch])].conn)

C20_BindingEndsWithScope == [][C20_StartStep]_vars

\* C21. tryLock never waits for the lock: its try-acquire statement is
\* answered whenever it is pending. Granted, the call returns the unlock
\* closure, keeps the lock and (if it took one) the client, and has released
\* nothing; refused, it changes no hold, releases a client it took (a reused
\* one stays where it is) and returns undefined. The closure, when invoked,
\* drops one hold of its session on the key and releases the client the same
\* way.
C21_TryLockState ==
    \A ch \in Chains : \A i \in Frames(ch) :
        LET f == stack[ch][i] IN
        /\ f.op = "tryLock" =>
              /\ f.pc \in {"connect", "try", "ret"}
              /\ (f.pc = "try" /\ i = Len(stack[ch])) => ENABLED queryTryLock(ch)
              /\ f.res = "unlockFn" =>
                    /\ f.pc = "ret" /\ f.rel = 0
                    /\ held[f.conn][f.key] >= 1
                    /\ Outermost(f) => pool[f.conn] = "out"
              /\ f.res = "undefined" =>
                    f.pc = "ret" /\ f.rel = (IF Outermost(f) THEN 1 ELSE 0)
              /\ f.pc = "ret" => f.res \in {"unlockFn", "undefined"}
        /\ (f.op = "unlock" /\ f.pc = "ret") =>
              f.res = "value" /\ f.rel = (IF Outermost(f) THEN 1 ELSE 0)

C21_TryLockStep ==
    \A ch \in Chains :
        (stack[ch] # <<>> /\ stack'[ch] # stack[ch])
        => LET f == Top(ch)
               released == IF Outermost(f) THEN [pool EXCEPT ![f.conn] = "idle"] ELSE pool IN
           /\ (f.op = "tryLock" /\ f.pc = "try" /\ PgGrantable(held, f.conn, f.key))
                  => /\ held' = [held EXCEPT ![f.conn][f.key] = @ + 1]
                     /\ pool' = pool
           /\ (f.op = "tryLock" /\ f.pc = "try" /\ ~PgGrantable(held, f.conn, f.key))
                  => held' = held /\ pool' = released
           /\ (f.op = "unlock" /\ f.pc = "unlock")
                  => /\ held[f.conn][f.key] >= 1
                     /\ held' = [held EXCEPT ![f.conn][f.key] = @ - 1]
                     /\ pool' = released

C21_TryLock == []C21_TryLockState /\ [][C21_TryLockStep]_vars

\* The unlock closure of a top-level tryLock has been invoked: the key is
\* free and the client is back in the pool.
C21_Witness ==
    \E ch \in Chains :
        /\ Len(stack[ch]) = 1
        /\ stack[ch][1].op = "unlock" /\ Outermost(stack[ch][1])
        /\ stack[ch][1].pc = "ret" /\ stack[ch][1].rel = 1
        /\ Free(stack[ch][1].key)
        /\ pool[stack[ch][1].conn] = "idle"

\* An unlock closure of a top-level tryLock on key k has been returned to its
\* caller and not been invoked.
OutstandingTopLevel(k) ==
    \E ch \in Chains : \E i \in 1..Len(closures[ch]) :
        closures[ch][i].key = k /\ ~closures[ch][i].nested

\* Frame 1 of a chain started outside every scope: a top-level call.
TopLevelTryLock(ch, k) ==
    /\ ch \in Roots /\ stack[ch] # <<>>
    /\ stack[ch][1].op = "tryLock" /\ stack[ch][1].key = k

\* C22. While the unlock closure of a granted top-level tryLock on k has not
\* been invoked, a top-level tryLock on k, of the same chain or of another
\* one, is refused (not grantable while pending, never holding an unlock
\* closure); when nothing holds k any more, as after the closure has been
\* invoked, a pending top-level tryLock on k is grantable.
C22_TryLockExcludes ==
    \A k \in Keys : \A ch \in Chains :
        TopLevelTryLock(ch, k)
        => LET g == stack[ch][1] IN
           /\ OutstandingTopLevel(k)
                 => /\ g.pc = "try" => ~PgGrantable(held, g.conn, k)
                    /\ g.res # "unlockFn"
           /\ (NoHolder(k) /\ g.pc = "try") => PgGrantable(held, g.conn, k)

\* A chain that keeps the unlock closure of its tryLock on k has called
\* tryLock on k again and is about to get undefined.
C22_Witness ==
    \E ch \in Chains : \E k \in Keys :
        /\ TopLevelTryLock(ch, k)
        /\ \E i \in 1..Len(closures[ch]) :
              closures[ch][i].key = k /\ ~closures[ch][i].nested
        /\ stack[ch][1].pc = "ret" /\ stack[ch][1].res = "undefined"

\* C23. A tryLock nested in a withLock on the same key of the same chain runs
\* on the client of the withLock and is granted: it never returns undefined.
\* When its unlock closure is invoked while the withLock is still in progress,
\* the client stays checked out, nothing is released and the withLock still
\* holds the key, so that it can complete.
C23_NestedTryLock ==
    \A ch \in Chains : \A i \in Frames(ch), j \in Frames(ch) :
        LET o == stack[ch][i]
            f == stack[ch][j] IN
        (i < j /\ o.op = "withLock" /\ o.key = f.key)
        => /\ f.op = "tryLock" =>
                 /\ f.nested /\ f.conn = o.conn /\ f.pc # "connect"
                 /\ f.pc = "try" => PgGrantable(held, f.conn, f.key)
                 /\ f.res # "undefined"
           /\ (f.op = "unlock" /\ f.nested /\ f.conn = o.conn) =>
                 /\ f.rel = 0
                 /\ held[o.conn][o.key] >= 1
                 /\ ch \in Roots => pool[o.conn] = "out"
                 /\ j = Len(stack[ch]) => ENABLED Resume(ch)

\* Inside a withLock, the closure of a tryLock on the same key has been
\* invoked: the withLock still holds the key once, on a checked-out client.
C23_Witness ==
    \E ch \in Chains :
        /\ Len(stack[ch]) = 2
        /\ stack[ch][1].op = "withLock" /\ stack[ch][1].pc = "fn"
        /\ stack[ch][2].op = "unlock" /\ stack[ch][2].nested
        /\ stack[ch][2].key = stack[ch][1].key
        /\ stack[ch][2].conn = stack[ch][1].conn
        /\ stack[ch][2].pc = "ret"
        /\ held[stack[ch][1].conn][stack[ch][1].key] = 1
        /\ pool[stack[ch][1].conn] = "out"

\* Frame j of chain ch belongs to a call that got a reused client from
\* getClient() and holds its release function: tryLock or its unlock closure.
HoldsNoopRelease(ch, j) ==
    stack[ch][j].op \in {"tryLock", "unlock"} /\ stack[ch][j].nested

\* C30. The release function of a reused client is a no-op: applied once or
\* repeatedly it leaves the pool as it is, the call counts no release, and no
\* step of a call that holds it changes the pool or the store of the chain, so
\* the client stays checked out for the scope of a root chain that stored it.
C30_NoopState ==
    \A ch \in Chains : \A j \in Frames(ch) :
        HoldsNoopRelease(ch, j)
        => LET f == stack[ch][j] IN
           /\ releaseFn(pool, f) = pool
           /\ releaseFn(releaseFn(releaseFn(pool, f), f), f) = pool
           /\ f.rel = 0
           /\ (ch \in Roots /\ j > 1 /\ f.conn = stack[ch][1].conn)
                  => pool[f.conn] = "out"

C30_NoopStep ==
    \A ch \in Chains :
        (/\ stack[ch] # <<>> /\ HoldsNoopRelease(ch, Len(stack[ch]))
         /\ stack'[ch] # stack[ch])
        => /\ pool' = pool
           /\ stack'[ch] # <<>> => getStore(ch)' = getStore(ch)

C30_ReusedReleaseIsNoop == []C30_NoopState /\ [][C30_NoopStep]_vars

\* A tryLock nested in a withLock was refused (another chain holds its key)
\* and has run its release function: the client of the withLock is still
\* checked out and the withLock still holds its own key.
C30_Witness ==
    \E ch \in Chains :
        /\ Len(stack[ch]) = 2
        /\ stack[ch][1].op = "withLock" /\ stack[ch][1].pc = "fn"
        /\ stack[ch][2].op = "tryLock" /\ stack[ch][2].nested
        /\ stack[ch][2].pc = "ret" /\ stack[ch][2].res = "undefined"
        /\ stack[ch][2].conn = stack[ch][1].conn
        /\ pool[stack[ch][1].conn] = "out"
        /\ held[stack[ch][1].conn][stack[ch][1].key] = 1

\* C25 as claimed: the error thrown by the function of withLock / tryWithLock
\* is what the caller of that call receives, whatever else fails.
C25_FnErrorReachesCaller ==
    \A ch \in Chains : \A i \in Frames(ch) :
        LET f == stack[ch][i] IN
        (f.op \in BracketOps /\ f.pc = "ret" /\ f.fnres \in Errors)
        => f.res = f.fnres

\* C26. When pool.connect() fails, the call settles with that error, has no
\* client, has run neither a statement nor its function, has released nothing
\* and has stored nothing; the step changes neither the pool nor any hold.
C26_ConnectFailedState ==
    \A ch \in Chains : \A i \in Frames(ch) :
        LET f == stack[ch][i] IN
        f.res = "ConnectError"
        => /\ f.pc = "ret" /\ f.conn = NoConn /\ Outermost(f)
           /\ f.fnres = "none" /\ f.rel = 0
           /\ i = 1 => getStore(ch) = inherited[ch]

C26_ConnectFailedStep ==
    \A ch \in Chains :
        (/\ stack[ch] # <<>> /\ Top(ch).pc = "connect"
         /\ stack'[ch] # stack[ch]
         /\ \A c \in Conns : pool'[c] = "out" => pool[c] = "out")
        => /\ pool' = pool /\ held' = held
           /\ stack'[ch] = SetTop(ch, [Top(ch) EXCEPT !.res = "ConnectError",
                                         !.pc = "ret"])[ch]

C26_ConnectFailure == []C26_ConnectFailedState /\ [][C26_ConnectFailedStep]_vars

\* pool.connect() has failed for a withLock called inside no scope while the
\* withLock of another chain runs: the error is about to reach the caller.
C26_Witness ==
    \E a \in Chains, b \in Chains :
        /\ a # b /\ Len(stack[a]) = 1 /\ Len(stack[b]) = 1
        /\ stack[a][1].op = "withLock" /\ stack[a][1].res = "ConnectError"
        /\ stack[a][1].pc = "ret" /\ stack[a][1].rel = 0
        /\ stack[b][1].op = "withLock" /\ stack[b][1].pc = "fn"
        /\ \E c \in Conns : pool[c] = "idle"


\* ------------------------------------------------------------ derived keys
Mutexes == 1..Len(mutex)

\* C27. Key derivation is deterministic: two mutexes constructed with the same
\* resource name hold the same lockKey, whatever was constructed before; and
\* two mutexes constructed with different names of the test corpus hold
\* different lockKeys.
C27_KeyDeterministic ==
    \A i \in Mutexes, j \in Mutexes :
        /\ mutex[i].name = mutex[j].name => mutex[i].lockKey = mutex[j].lockKey
        /\ (/\ mutex[i].name \in Corpus /\ mutex[j].name \in Corpus
            /\ mutex[i].name # mutex[j].name)
           => mutex[i].lockKey # mutex[j].lockKey

\* Two mutexes were constructed with the same name, which is not empty.
C27_Witness ==
    /\ Len(mutex) = 2
    /\ mutex[1].name = mutex[2].name
    /\ mutex[1].name # <<>>

\* magnitude < 2^63
BelowPow63(m) ==
    \A i \in 1..Len(m) : (i = 4 => m[i] < 32768) /\ (i > 4 => m[i] = 0)

\* magnitude = 2^63
IsPow63(m) ==
    Len(m) >= 4 /\ \A i \in 1..Len(m) : m[i] = (IF i = 4 THEN 32768 ELSE 0)

\* -2^63 <= k <= 2^63 - 1
InSigned64(k) ==
    /\ \A i \in 1..Len(k.mag) : k.mag[i] \in 0..(Base - 1)
    /\ BelowPow63(k.mag) \/ (k.neg /\ IsPow63(k.mag))

\* C28. The key derived from any string, the empty string included, lies in
\* the signed 64-bit range -2^63 .. 2^63 - 1.
C28_KeyInSigned64 == \A i \in Mutexes : InSigned64(mutex[i].lockKey)

\* A key was derived from the empty string and another one is negative.
C28_Witness ==
    /\ \E i \in Mutexes : mutex[i].name = <<>>
    /\ \E j \in Mutexes : mutex[j].lockKey.neg /\ Len(mutex[j].name) > 2

\* The reference djb2 fold, on unsigned 64-bit values written as 8 bytes,
\* lowest first.
RefSeed == <<5381 % 256, 5381 \div 256, 0, 0, 0, 0, 0, 0>>

\* a XOR b for two bytes: the bits k .. 7
RECURSIVE RefXor(_, _, _)
RefXor(a, b, k) ==
    IF k = 8 THEN 0
    ELSE (((a \div (2 ^ k)) + (b \div (2 ^ k))) % 2) * (2 ^ k) + RefXor(a, b, k + 1)

\* ((acc * 33) XOR c) mod 2^64; p1 .. p8 are the byte products with the carry
\* of the bytes below, and the carry out of the eighth byte is dropped.
RefStep(acc, c) ==
    LET p1 == acc[1] * 33
        p2 == acc[2] * 33 + (p1 \div 256)
        p3 == acc[3] * 33 + (p2 \div 256)
        p4 == acc[4] * 33 + (p3 \div 256)
        p5 == acc[5] * 33 + (p4 \div 256)
        p6 == acc[6] * 33 + (p5 \div 256)
        p7 == acc[7] * 33 + (p6 \div 256)
        p8 == acc[8] * 33 + (p7 \div 256)
    IN  <<RefXor(p1 % 256, c % 256, 0), RefXor(p2 % 256, c \div 256, 0),
          p3 % 256, p4 % 256, p5 % 256, p6 % 256, p7 % 256, p8 % 256>>

\* the accumulator acc folded over the code units lo .. hi of str, in order
RECURSIVE RefFold(_, _, _, _)
RefFold(str, lo, hi, acc) ==
    IF lo > hi THEN acc
    ELSE IF lo = hi THEN RefStep(acc, str[lo])
    ELSE LET half == RefFold(str, lo, (lo + hi) \div 2, acc)
         IN  IF Len(half) > 0 THEN RefFold(str, (lo + hi) \div 2 + 1, hi, half) ELSE half

\* 2^64 - acc, for acc >= 2^63: every byte complemented, plus one
RefNegate(acc) ==
    LET n1 == (255 - acc[1]) + 1
        n2 == (255 - acc[2]) + (n1 \div 256)
        n3 == (255 - acc[3]) + (n2 \div 256)
        n4 == (255 - acc[4]) + (n3 \div 256)
        n5 == (255 - acc[5]) + (n4 \div 256)
        n6 == (255 - acc[6]) + (n5 \div 256)
        n7 == (255 - acc[7]) + (n6 \div 256)
        n8 == (255 - acc[8]) + (n7 \div 256)
    IN  <<n1 % 256, n2 % 256, n3 % 256, n4 % 256, n5 % 256, n6 % 256, n7 % 256, n8 % 256>>

\* acc if acc < 2^63, acc - 2^64 otherwise
RefKey(str) ==
    LET acc == RefFold(str, 1, Len(str), RefSeed)
    IN  IF acc[8] < 128 THEN [neg |-> FALSE, bytes |-> acc]
        ELSE [neg |-> TRUE, bytes |-> RefNegate(acc)]

SameNumber(k, r) ==
    /\ k.neg = r.neg
    /\ Len(k.mag) = 4
    /\ \A i \in 1..4 : k.mag[i] = r.bytes[2 * i - 1] + 256 * r.bytes[2 * i]

\* C29. The derived key equals the reference djb2 fold of the name: from 5381,
\* acc = ((acc * 33) XOR c) mod 2^64 for each code unit c in order, returned as
\* acc below 2^63 and as acc - 2^64 from there on; the empty string gives 5381.
C29_KeyIsDjb2 ==
    \A i \in Mutexes :
        /\ SameNumber(mutex[i].lockKey, RefKey(mutex[i].name))
        /\ mutex[i].name = <<>>
           => mutex[i].lockKey = [neg |-> FALSE, mag |-> <<5381, 0, 0, 0>>]

\* Keys were derived from the empty string and from a long string of the
\* corpus whose fold wraps around 2^64 and ends at or above 2^63.
C29_Witness ==
    /\ \E i \in Mutexes : mutex[i].name = <<>>
    /\ \E j \in Mutexes :
          /\ mutex[j].name \in Corpus
          /\ Len(mutex[j].name) > 16
          /\ mutex[j].lockKey.neg


\* ------------------------------------------------------------ wrapWithLock
IsPrefix(a, b) == Len(a) <= Len(b) /\ SubSeq(b, 1, Len(a)) = a

BothDone == run # NoRun /\ \A s \in Sides : run[s].frame.pc = "done"

\* C24. wrapWithLock(name, fn)(...args) behaves as withLock(name, () =>
\* fn(...args)): at any time the events of one call (connection, acquire, fn
\* with the arguments it receives, release of the lock, release of the client)
\* are a prefix of the events of the other, and once both have settled they
\* have the same events, the same result or error, the same value carried, and
\* leave the pool and the locks in the same state.
C24_WrapEquivalent ==
    run # NoRun =>
        /\ \/ IsPrefix(run[Wrapped].events, run[Direct].events)
           \/ IsPrefix(run[Direct].events, run[Wrapped].events)
        /\ BothDone =>
              /\ run[Wrapped].events = run[Direct].events
              /\ run[Wrapped].frame.res = run[Direct].frame.res
              /\ run[Wrapped].out = run[Direct].out
              /\ run[Wrapped].frame.rel = run[Direct].frame.rel
              /\ \A c \in Conns : run[Wrapped].pool[c] = run[Direct].pool[c]
              /\ \A k \in Keys : \A c \in Conns :
                    run[Wrapped].held[c][k] = 0 /\ run[Direct].held[c][k] = 0

\* Both calls have settled with the error of a function that was given two
\* arguments.
C24_Witness ==
    /\ BothDone
    /\ run[Wrapped].frame.res = "FnError"
    /\ Len(run[Wrapped].out) = 2
    /\ Len(run[Wrapped].events) = 5


\* ------------------------------------------------------ failing statements
\* Chain ch takes the step in which a statement or the pool fails.
FailsNow(ch) ==
    /\ stack[ch] # <<>>
    /\ faults' = faults + 1
    /\ stack'[ch] # stack[ch]

\* Chain ch takes a step of its top frame.
StepsTop(ch) ==
    /\ stack[ch] # <<>>
    /\ Len(stack'[ch]) = Len(stack[ch])
    /\ stack'[ch] # stack[ch]

TopAfter(ch) == stack'[ch][Len(stack'[ch])]

C36_AcquireFailsStep ==
    \A ch \in Chains :
        /\ (/\ FailsNow(ch)
            /\ Top(ch).op \in BracketOps /\ Top(ch).pc \in {"lock", "try"})
           => /\ TopAfter(ch).res = "AcquireError"
              /\ TopAfter(ch).fnres = "none"
              /\ TopAfter(ch).pc = IF Top(ch).nested THEN "ret" ELSE "release"
              /\ TopAfter(ch).rel = 0
              /\ held' = held /\ pool' = pool
        /\ (/\ StepsTop(ch)
            /\ Top(ch).op \in BracketOps /\ Top(ch).res = "AcquireError"
            /\ Top(ch).pc = "release")
           => /\ TopAfter(ch).res = "AcquireError"
              /\ TopAfter(ch).pc = "ret" /\ TopAfter(ch).rel = 1
              /\ pool' = [pool EXCEPT ![Top(ch).conn] = "idle"]
              /\ held' = held

C36_AcquireFailsState ==
    \A ch \in Chains : \A i \in Frames(ch) :
        LET f == stack[ch][i] IN
        (f.op \in BracketOps /\ f.res = "AcquireError")
        => /\ f.fnres = "none"
           /\ i = Len(stack[ch])
           /\ f.pc \in {"release", "ret"}
           /\ f.pc = "release" => Outermost(f) /\ f.rel = 0 /\ pool[f.conn] = "out"
           /\ f.pc = "ret" => f.rel = IF Outermost(f) THEN 1 ELSE 0

\* C36. When the acquire statement of withLock or tryWithLock fails: the
\* function is not run, no unlock statement is issued (no hold changes), an
\* outermost call releases its client exactly once, a nested one not at all,
\* and the call settles with the error of the statement.
C36_AcquireFailure == []C36_AcquireFailsState /\ [][C36_AcquireFailsStep]_vars

\* The acquire statement of an outermost tryWithLock has failed; the client
\* has been released once and the error is about to reach the caller, while
\* another chain runs its function.
C36_Witness ==
    \E a \in Chains, b \in Chains :
        /\ a # b /\ Len(stack[a]) = 1 /\ Len(stack[b]) = 1
        /\ stack[a][1].op = "tryWithLock" /\ stack[a][1].res = "AcquireError"
        /\ stack[a][1].pc = "ret" /\ stack[a][1].rel = 1
        /\ pool[stack[a][1].conn] = "idle"
        /\ stack[b][1].pc = "fn"

C37_ReleaseFailsStep ==
    \A ch \in Chains :
        /\ (FailsNow(ch) /\ Top(ch).pc = "unlock")
           => /\ TopAfter(ch).res = "ReleaseError"
              /\ held' = held
              /\ IF Top(ch).op = "unlock"
                 THEN /\ TopAfter(ch).pc = "ret"
                      /\ TopAfter(ch).rel = IF Top(ch).nested THEN 0 ELSE 1
                      /\ pool' = IF Top(ch).nested THEN pool
                                 ELSE [pool EXCEPT ![Top(ch).conn] = "idle"]
                 ELSE /\ TopAfter(ch).pc = IF Top(ch).nested THEN "ret" ELSE "release"
                      /\ TopAfter(ch).rel = 0
                      /\ pool' = pool
        /\ (/\ StepsTop(ch)
            /\ Top(ch).res = "ReleaseError" /\ Top(ch).pc = "release")
           => /\ TopAfter(ch).res = "ReleaseError"
              /\ TopAfter(ch).pc = "ret" /\ TopAfter(ch).rel = 1
              /\ pool' = [pool EXCEPT ![Top(ch).conn] = "idle"]
              /\ held' = held

C37_ReleaseFailsState ==
    \A ch \in Chains : \A i \in Frames(ch) :
        LET f == stack[ch][i] IN
        f.res = "ReleaseError"
        => /\ f.op \in BracketOps \cup {"unlock"}
           /\ i = Len(stack[ch])
           /\ f.pc \in {"release", "ret"}
           /\ f.pc = "release" => f.op \in BracketOps /\ Outermost(f) /\ f.rel = 0
           /\ f.pc = "ret" => f.rel = IF Outermost(f) THEN 1 ELSE 0

\* C37. When the unlock statement fails: an outermost withLock or tryWithLock
\* still releases its client exactly once and settles with a failure; the
\* unlock closure of tryLock releases the client it took (once) and rejects.
C37_ReleaseFailure == []C37_ReleaseFailsState /\ [][C37_ReleaseFailsStep]_vars

\* The unlock statement of an outermost withLock whose function returned a
\* value has failed: the client is back in the pool, released once, and the
\* call is about to settle with the failure.
C37_Witness ==
    \E ch \in Chains :
        /\ Len(stack[ch]) = 1
        /\ stack[ch][1].op = "withLock" /\ Outermost(stack[ch][1])
        /\ stack[ch][1].fnres = "value"
        /\ stack[ch][1].res = "ReleaseError"
        /\ stack[ch][1].pc = "ret" /\ stack[ch][1].rel = 1
        /\ pool[stack[ch][1].conn] = "idle"

C38_TryLockFailsStep ==
    \A ch \in Chains :
        /\ (/\ FailsNow(ch)
            /\ Top(ch).op = "tryLock" /\ Top(ch).pc = "try")
           => /\ TopAfter(ch).res = "AcquireError"
              /\ TopAfter(ch).pc = "ret"
              /\ TopAfter(ch).rel = IF Top(ch).nested THEN 0 ELSE 1
              /\ pool' = IF Top(ch).nested THEN pool
                         ELSE [pool EXCEPT ![Top(ch).conn] = "idle"]
              /\ held' = held /\ closures' = closures
        /\ (/\ stack[ch] # <<>> /\ Top(ch).op = "tryLock"
            /\ Top(ch).res = "AcquireError"
            /\ stack'[ch] # stack[ch])
           => /\ stack'[ch] = Pop(ch)[ch]
              /\ closures' = closures /\ pool' = pool /\ held' = held

C38_TryLockFailsState ==
    \A ch \in Chains : \A i \in Frames(ch) :
        LET f == stack[ch][i] IN
        f.op = "tryLock"
        => /\ f.rel <= 1
           /\ f.res = "unlockFn" => f.rel = 0
           /\ f.res = "AcquireError" => f.pc = "ret" /\ i = Len(stack[ch])

\* C38. When the try-acquire statement of tryLock fails, tryLock runs release()
\* once (client.release() for a client it took, nothing for a reused one),
\* rethrows the error and hands no unlock closure to the caller; no tryLock
\* call runs release() more than once.
C38_TryLockFailure == []C38_TryLockFailsState /\ [][C38_TryLockFailsStep]_vars

\* The try-acquire statement of a top-level tryLock has failed: its client is
\* back in the pool, released once, and the chain has no closure.
C38_Witness ==
    \E ch \in Chains :
        /\ Len(stack[ch]) = 1
        /\ stack[ch][1].op = "tryLock" /\ Outermost(stack[ch][1])
        /\ stack[ch][1].res = "AcquireError" /\ stack[ch][1].rel = 1
        /\ pool[stack[ch][1].conn] = "idle"
        /\ closures[ch] = <<>>


\* ------------------------------------------------- statements and the pool
\* C33 as claimed: a statement (acquire, try-acquire or unlock) is only ever
\* issued on a client that is checked out of the pool at that moment.
C33_StatementStep ==
    \A ch \in Chains :
        (StepsTop(ch) /\ Top(ch).pc \in {"lock", "try", "unlock"})
        => pool[Top(ch).conn] = "out"

C33_NoStatementAfterRelease == [][C33_StatementStep]_vars


\* --------------------------------------------------- tryLock binds nothing
\* C34. getClient() stores nothing: a chain that holds the unlock closure of a
\* top-level tryLock finds no stored client, so every lock operation it starts
\* meanwhile at top level is outermost and runs on a client other than the one
\* on which the tryLock holds its lock.
C34_TryLockBindsNothing ==
    \A ch \in Roots : \A i \in 1..Len(closures[ch]) :
        LET u == closures[ch][i] IN
        ~u.nested
        => /\ pool[u.conn] = "out" /\ held[u.conn][u.key] >= 1
           /\ stack[ch] = <<>> => getStore(ch) = NoConn
           /\ (stack[ch] # <<>> /\ stack[ch][1].op # "unlock")
              => /\ Outermost(stack[ch][1])
                 /\ stack[ch][1].conn # u.conn

\* As in the test "returns null when lock is not available": a chain holds
\* the closure of a top-level tryLock, and its second tryLock on the same key
\* ran on another client and was refused.
C34_Witness ==
    \E ch \in Roots : \E i \in 1..Len(closures[ch]) :
        /\ ~closures[ch][i].nested
        /\ Len(stack[ch]) = 1
        /\ stack[ch][1].op = "tryLock"
        /\ stack[ch][1].key = closures[ch][i].key
        /\ stack[ch][1].res = "undefined"
        /\ stack[ch][1].conn \notin {NoConn, closures[ch][i].conn}


\* ------------------------------------------------------ clients checked out
\* Only withLock and tryWithLock are in use: no tryLock call is in progress, no
\* unlock closure is outstanding or running.
OnlyBrackets ==
    \A ch \in Chains :
        /\ closures[ch] = <<>>
        /\ \A i \in Frames(ch) : stack[ch][i].op \in BracketOps

\* The outermost operations that have their client and have not released it.
OutermostInProgress ==
    {<<ch, i>> \in Chains \X (1..(MaxDepth + 1)) :
        /\ i \in Frames(ch)
        /\ stack[ch][i].op \in BracketOps /\ Outermost(stack[ch][i])
        /\ stack[ch][i].pc \in {"lock", "try", "fn", "unlock", "release"}}

CheckedOut == {c \in Conns : pool[c] = "out"}

\* C35. While only withLock and tryWithLock are in use, as many clients are
\* checked out as there are outermost operations in progress, each on a client
\* of its own; a chain has at most one outermost operation however deep its
\* stack; and pool.connect() can only be left waiting when every client is
\* held by an outermost operation of another chain.
C35_OneClientPerOutermost ==
    OnlyBrackets
    => /\ Cardinality(CheckedOut) = Cardinality(OutermostInProgress)
       /\ \A p \in OutermostInProgress, q \in OutermostInProgress :
             p # q => stack[p[1]][p[2]].conn # stack[q[1]][q[2]].conn
       /\ \A ch \in Chains :
             Cardinality({i \in Frames(ch) : Outermost(stack[ch][i])}) <= 1
       /\ \A ch \in Chains :
             (stack[ch] # <<>> /\ Top(ch).pc = "connect"
              /\ \A c \in Conns : pool[c] = "out")
             => Cardinality({p[1] : p \in OutermostInProgress} \ {ch}) = NConns

\* Two chains run nested operations, two deep each, and exactly two clients
\* are checked out.
C35_Witness ==
    /\ OnlyBrackets
    /\ Cardinality(CheckedOut) = 2
    /\ \E a \in Chains, b \in Chains :
          /\ a # b
          /\ Len(stack[a]) = 2 /\ stack[a][2].pc = "fn"
          /\ Len(stack[b]) >= 1 /\ Top(b).pc \in {"fn", "lock"}
          /\ Outermost(stack[a][1]) /\ Outermost(stack[b][1])


\* ------------------------------------------------- one acquire, one unlock
\* How far a frame has come.
Rank(pc) ==
    CASE pc = "connect" -> 0
      [] pc \in {"lock", "try"} -> 1
      [] pc = "fn" -> 2
      [] pc = "unlock" -> 3
      [] pc = "release" -> 4
      [] pc = "ret" -> 5

\* The hold of session c on key k goes up / down by one, nothing else changes.
OneMore(c, k) == held' = [held EXCEPT ![c][k] = @ + 1]

OneLess(c, k) == held' = [held EXCEPT ![c][k] = IF @ > 0 THEN @ - 1 ELSE 0]

C32_StatementStep ==
    \A ch \in Chains :
        (StepsTop(ch) /\ Top(ch).op \in BracketOps)
        => LET f == Top(ch)
               g == TopAfter(ch)
           IN  /\ Rank(g.pc) > Rank(f.pc)
               /\ g.op = f.op /\ g.key = f.key
               /\ f.pc # "connect" => g.conn = f.conn
               /\ f.pc = "connect" => held' = held
               /\ f.pc \in {"lock", "try"} =>
                     \/ g.pc = "fn" /\ OneMore(f.conn, f.key)
                     \/ g.pc \in {"release", "ret"} /\ held' = held
                        /\ g.res \in {"not_acquired", "AcquireError"}
               /\ f.pc = "fn" => g.pc = "unlock" /\ held' = held
               /\ f.pc = "unlock" =>
                     /\ g.pc \in {"release", "ret"}
                     /\ OneLess(f.conn, f.key) \/ (held' = held /\ g.res = "ReleaseError")
               /\ f.pc = "release" => g.pc = "ret" /\ held' = held

\* C32. A withLock or tryWithLock call sends its acquire statement once; if
\* granted it runs its function and then sends the unlock statement once, on
\* the same client and with the same key; a call that was refused or whose
\* acquire failed sends no unlock statement; no step goes back to a statement
\* already sent, also after a failure.
C32_OneAcquireOneRelease == [][C32_StatementStep]_vars

\* A granted tryWithLock and a refused one stand side by side, both about to
\* settle: the first has unlocked and released, the second only released.
C32_Witness ==
    \E a \in Chains, b \in Chains :
        /\ a # b /\ Len(stack[a]) = 1 /\ Len(stack[b]) = 1
        /\ stack[a][1].op = "tryWithLock" /\ stack[a][1].res = "acquired"
        /\ stack[a][1].pc = "ret"
        /\ stack[b][1].op = "tryWithLock" /\ stack[b][1].res = "not_acquired"
        /\ stack[b][1].pc = "ret" /\ stack[b][1].key = stack[a][1].key
        /\ \A c \in Conns : held[c][stack[a][1].key] = 0


\* ------------------------------------------------------- the lock's cycle
\* The state of the lock of one operation, as its frame shows it.
LockState(f) ==
    CASE f.pc \in {"connect", "lock", "try"} -> "ACQUIRING"
      [] f.pc = "fn" -> "HELD"
      [] f.pc = "unlock" -> "RELEASING"
      [] f.pc \in {"release", "ret"} -> "UNLOCKED"

\* An outermost withLock / tryWithLock starts in ACQUIRING, goes on to HELD,
\* RELEASING and UNLOCKED in this order (a refused tryWithLock goes from
\* ACQUIRING straight back to UNLOCKED), and its events come in the order
\* client taken, acquire, function, unlock, client returned.
C31_CycleStep ==
    \A ch \in Chains :
        /\ (/\ Len(stack'[ch]) = Len(stack[ch]) + 1
            /\ TopAfter(ch).op \in BracketOps)
           => LockState(TopAfter(ch)) = "ACQUIRING"
        /\ (StepsTop(ch) /\ Top(ch).op \in BracketOps /\ Outermost(Top(ch)))
           => LET a == LockState(Top(ch))
                  b == LockState(TopAfter(ch))
              IN  /\ Rank(TopAfter(ch).pc) > Rank(Top(ch).pc)
                  /\ \/ a = b
                     \/ a = "ACQUIRING" /\ b = "HELD"
                     \/ a = "HELD" /\ b = "RELEASING"
                     \/ a = "RELEASING" /\ b = "UNLOCKED"
                     \/ /\ a = "ACQUIRING" /\ b = "UNLOCKED"
                        /\ TopAfter(ch).res = "not_acquired"
                  /\ Top(ch).pc = "connect" <=> pool' # pool /\ TopAfter(ch).pc # "ret"
                  /\ Top(ch).pc = "release" <=> pool' # pool /\ TopAfter(ch).pc = "ret"

C31_OutermostCycle == [][C31_CycleStep]_vars

\* The operation whose scope stored client c holds its lock and runs its
\* function.
EnclosingHeld(c) ==
    \E e \in Chains : \E j \in Frames(e) :
        /\ stack[e][j].op \in BracketOps /\ Outermost(stack[e][j])
        /\ stack[e][j].conn = c
        /\ LockState(stack[e][j]) = "HELD"

\* The acquire and the unlock statement of a nested withLock / tryWithLock are
\* sent while the enclosing operation is HELD.
C31_NestedStep ==
    \A ch \in Chains :
        (/\ StepsTop(ch)
         /\ Top(ch).op \in BracketOps /\ Top(ch).nested
         /\ Top(ch).pc \in {"lock", "try", "unlock"})
        => EnclosingHeld(Top(ch).conn)

\* C31 as claimed: an outermost operation cycles UNLOCKED -> ACQUIRING -> HELD
\* -> RELEASING -> UNLOCKED with its events in order, and the acquire and the
\* release of every nested operation fall between the acquire and the release
\* of the operation that encloses it.
C31_LockCycle == [][C31_CycleStep /\ C31_NestedStep]_vars


\* ------------------------------------------------------- two coordinators
CoFrames == 1..Len(coord.stack)

\* Frame i is the first frame of its coordinator in the chain's stack.
FirstOfCoordinator(i) ==
    \A j \in 1..(i - 1) : coord.stack[j].co # coord.stack[i].co

C39_CoordState ==
    coord # NoCoord =>
    \A i \in CoFrames :
        LET x == coord.stack[i] IN
        /\ FirstOfCoordinator(i) => Outermost(x.f)
        /\ ~FirstOfCoordinator(i) =>
              /\ x.f.nested
              /\ \E j \in 1..(i - 1) :
                    /\ coord.stack[j].co = x.co /\ Outermost(coord.stack[j].f)
                    /\ coord.stack[j].f.conn = x.f.conn
        /\ (Outermost(x.f) /\ x.f.pc \in {"lock", "try", "fn", "unlock", "release"})
           => coord.pool[x.co][x.f.conn] = "out"

C39_CoordStep ==
    (coord # NoCoord /\ coord' # coord) =>
    \A a \in Coords :
        LET acts == IF Len(coord'.stack) > Len(coord.stack)
                    THEN coord'.stack[Len(coord'.stack)].co
                    ELSE CoTop.co
        IN  acts # a
            => /\ coord'.pool[a] = coord.pool[a]
               /\ coord'.held[a] = coord.held[a]
               /\ coGetStore(a)' = coGetStore(a)
               /\ \A i \in CoFrames :
                     (coord.stack[i].co = a /\ i <= Len(coord'.stack))
                     => coord'.stack[i] = coord.stack[i]

\* C39. A lock operation made through one coordinator inside a scope of the
\* other finds no stored client: it is outermost and takes a client from its
\* own pool; operations of the same coordinator beneath reuse that
\* coordinator's client; and no step of an operation of one coordinator
\* changes the other's pool, sessions, stored client or frames.
C39_CoordinatorsIsolated == []C39_CoordState /\ [][C39_CoordStep]_vars

\* Inside a withLock of coordinator 1, a withLock of coordinator 2 runs on a
\* client of pool 2, and inside it a second operation of coordinator 1 has
\* been granted the key of the first on the client of the first.
C39_Witness ==
    /\ coord # NoCoord /\ Len(coord.stack) = 3
    /\ coord.stack[1].co = 1 /\ coord.stack[2].co = 2 /\ coord.stack[3].co = 1
    /\ Outermost(coord.stack[1].f) /\ Outermost(coord.stack[2].f)
    /\ coord.stack[3].f.nested
    /\ coord.stack[3].f.conn = coord.stack[1].f.conn
    /\ coord.stack[3].f.key = coord.stack[1].f.key
    /\ coord.stack[3].f.pc = "fn"
    /\ coord.pool[2][coord.stack[2].f.conn] = "out"
    /\ coord.held[1][coord.stack[1].f.conn][coord.stack[1].f.key] = 2

====
